---- MODULE Spec2Model ----
(***************************************************************************)
(* Verification model of the Felix policy agent (calico/felix).            *)
(*                                                                         *)
(*   SpecIpset     Ipset.replace_members: the "ipset restore" script run   *)
(*                 line by line against one kernel set and its temp set.   *)
(*   SpecTags      IpsetManager (tag index, dirty tags, batches), its      *)
(*                 TagIpset actors and the kernel sets they write.         *)
(*   SpecEndpoint  EndpointManager and the LocalEndpoint state machine.    *)
(*   SpecLocalEndpoint  one LocalEndpoint actor on its own (and           *)
(*                 SpecLocalEndpointFair, with fair retries).              *)
(*   SpecPorts     frules: filter_zero_ports and _split_port_lists.        *)
(*   SpecRule      frules: one rule compiled to iptables fragments.        *)
(*   SpecChain     frules: rules_to_chain_rewrite_lines on a rule list.    *)
(*   SpecWatcher   fetcd: EtcdAPI.load_config / start_watch and the        *)
(*                 _EtcdWatcher greenlet (SpecWatcherFair: fair steps).    *)
(*   SpecRecords   fetcd: the watcher's record handlers and parsers.       *)
(*   SpecTasks     felix.main, _main_greenlet and EtcdAPI's greenlets      *)
(*                 (SpecTasksFair: every enabled greenlet runs).           *)
(*   SpecCleanup   IpsetManager.cleanup among live and stopping tags.      *)
(*   SpecIndex     IpsetManager: the tag index alone.                      *)
(*   SpecThrash    IpsetManager: an endpoint that moves between profiles  *)
(*                 and changes addresses within a batch.                   *)
(*   SpecStopFair  TagIpset.on_unreferenced and the reference manager,     *)
(*                 every actor scheduled.                                  *)
(*   SpecHosts     fetcd: _load_initial_dump and the host key handlers.    *)
(***************************************************************************)
EXTENDS Integers, Sequences, FiniteSets, TLC

VARIABLES
    \* ---- SpecIpset: one Ipset helper and the kernel sets it names
    ks,             \* kernel: [live, tmp], each [exists, members]
    sc_lines,       \* input_lines of the running script
    sc_pc,          \* index of the next line to execute
    sc_status,      \* "idle" | "running" | "ok" | "failed"
    sc_pre,         \* the kernel sets as they were when the script started
    sc_S,           \* the argument of replace_members
    sc_swapped,     \* the swap line of this script has executed
    \* ---- SpecTags: IpsetManager (one IP family)
    tags_by_prof_id,            \* dict: profile id -> tags
    endpoints_by_ep_id,         \* dict: endpoint id -> endpoint
    ip_owners_by_tag,           \* dict tag -> dict ip -> dict profile -> set of endpoint ids
    endpoint_ids_by_profile_id, \* dict: profile id -> set of endpoint ids
    dirty_tags,                 \* _dirty_tags
    mgr_in_batch,               \* a handler has run since the last _finish_msg_batch
    \* ---- SpecTags: ReferenceManager part of the IpsetManager, per tag
    ref_count,                  \* references held on the current object
    ref_state,                  \* "none" | "created" | "starting" | "live" (objects_by_id)
    stopping,                   \* an older instance is in stopping_objects_by_id
    ready_msgs,                 \* on_object_startup_complete(obj) in flight, obj the current object
    cleanup_msgs,               \* on_object_cleanup_complete in flight
    \* ---- SpecTags: the started TagIpset actor of each tag
    a_queue,                    \* its mailbox
    a_members,                  \* members
    a_programmed,               \* programmed_members: None or Some(set)
    a_stopped,                  \* stopped
    a_notified,                 \* notified_ready
    kern,                       \* kernel sets of each tag: [live, tmp]
    \* ---- SpecTags: history
    mgr_last,                   \* what the manager's last handler did (see MgrOnTagsUpdate)
    a_batch,                    \* what the actor's last batch did (see ActorBatch)
    \* ---- SpecEndpoint: EndpointManager
    endpoints_by_id,            \* dict: endpoint id -> endpoint
    endpoint_id_by_iface_name,  \* dict: interface name -> endpoint id
    interfaces,                 \* dict: interface name -> iface_state
    ep_ref_count,               \* ReferenceManager: references held per endpoint id
    ep_obj,                     \* ReferenceManager: "none" | "pending" | "live" per endpoint id
    \* ---- SpecEndpoint: the LocalEndpoint actor of each endpoint id
    le_run,                     \* an instance exists (started, not yet cleaned up)
    le,                         \* its fields
    le_queue,                   \* its mailbox
    pending_retries,            \* gevent.spawn_later(5, _maybe_update, False) not yet fired
    \* ---- SpecEndpoint: dataplane and profile manager
    chains,                     \* per interface name: profile the to/from chains goto, or None
    dispatch_rules,             \* interface names the dispatch chain routes
    profile_refs,               \* per profile: increfs minus decrefs issued by LocalEndpoints
    \* ---- SpecEndpoint: history
    le_trace,                   \* the calls made by each LocalEndpoint's last handler
    \* ---- SpecPorts: frules._split_port_lists
    ports,                      \* the port list of a rule (src_ports or dst_ports)
    port_chunks,                \* _split_port_lists(ports)
    \* ---- SpecRule, SpecChain: frules.rules_to_chain_rewrite_lines
    rules,                      \* the rule list of a profile chain
    chain_version,              \* the IP family of the chain, 4 or 6
    fragments,                  \* rules_to_chain_rewrite_lines(rules, chain_version)
    \* ---- SpecWatcher: fetcd.EtcdAPI and its _EtcdWatcher greenlet
    w_state,                    \* where the watcher greenlet is blocked
    load_config,                \* Event: set or not
    begin_polling,              \* Event: set or not
    configured,                 \* Event: set or not
    splitter,                   \* _EtcdWatcher.splitter: None or Some(reference)
    store_ready,                \* the Ready key in the store: None or Some(value)
    store_config,               \* the config in the store
    last_config,                \* last_global_config / last_host_config: None or Some
    w_round,                    \* what the watcher has done since it last reconnected
    w_sent,                     \* messages the watcher sent that are still in flight
    w_events,                   \* store events of this poll not yet returned to the watcher
    cfg_reports,                \* number of calls of config.report_etcd_config
    exit_code,                  \* None, or Some(code) once the process has exited
    w_last,                     \* how the watcher's last step ended
    api_trace,                  \* the statements the last EtcdAPI handler executed
    \* ---- SpecRecords: the record handlers of the watcher
    endpoint_ids_per_host,      \* dict: hostname -> set of endpoint ids
    sp_sent,                    \* what the last handler sent to the splitter, in order
    rec_last,                   \* the event the last handler was called for
    rec_latest,                 \* per endpoint id: what the store last said of it
    \* ---- SpecHosts: the host addresses of the watcher
    ipv4_by_hostname,           \* dict: hostname -> IP
    hosts_sent,                 \* None, or Some(members of the last replace_members to hosts_ipset)
    store_bird_ip,              \* the store: hostname -> value of its bird_ip key
    \* ---- SpecTasks: the top-level greenlets and the process
    tasks,                      \* per task: "running" | "returned" | "failed"
    root_state,                 \* _main_greenlet: "iwait" | "raised"
    main_state,                 \* main(): "join" | "returned" | "os._exit"
    proc_exit,                  \* None, or Some(exit status of the process)
    \* ---- SpecCleanup: IpsetManager.cleanup
    other_sets,                 \* names of the kernel sets that are not a v4 tag's sets
    cleanup_calls               \* dict: name -> outcome of "ipset destroy" in the last cleanup

ipsetVars == <<ks, sc_lines, sc_pc, sc_status, sc_pre, sc_S, sc_swapped>>

indexVars == <<tags_by_prof_id, endpoints_by_ep_id, ip_owners_by_tag,
               endpoint_ids_by_profile_id, dirty_tags>>

refVars == <<ref_count, ref_state, stopping, ready_msgs, cleanup_msgs>>

actorVars == <<a_queue, a_members, a_programmed, a_stopped, a_notified, kern>>

histVars == <<mgr_last, a_batch>>

tagsVars == <<indexVars, mgr_in_batch, refVars, actorVars, histVars>>

emVars == <<endpoints_by_id, endpoint_id_by_iface_name, interfaces, ep_ref_count, ep_obj>>

leVars == <<le_run, le, le_queue, pending_retries, le_trace>>

dpVars == <<chains, dispatch_rules, profile_refs>>

epVars == <<emVars, leVars, dpVars>>

portsVars == <<ports, port_chunks>>

\* What the address-set and endpoint parts of the agent never touch
rulesVars == <<rules, chain_version, fragments>>

fetcdVars == <<w_state, load_config, begin_polling, configured, splitter, store_ready,
               store_config, last_config, w_round, w_sent, api_trace, w_events,
               cfg_reports, exit_code, w_last>>

hostVars == <<ipv4_by_hostname, hosts_sent, store_bird_ip>>

recVars == <<endpoint_ids_per_host, sp_sent, rec_last, rec_latest, hostVars>>

taskVars == <<tasks, root_state, main_state, proc_exit>>

cleanupVars == <<other_sets, cleanup_calls>>

restVars == <<portsVars, rulesVars, fetcdVars, recVars, taskVars, cleanupVars>>

vars == <<ipsetVars, tagsVars, epVars, restVars>>

(***************************************************************************)
(* Kernel address sets and the ipset restore dialect                       *)
(***************************************************************************)
IPs == {"ip1", "ip2"}

Absent == [exists |-> FALSE, members |-> {}]

KSet(S) == [exists |-> TRUE, members |-> S]

KSetStates == {Absent} \cup {KSet(S) : S \in SUBSET IPs}

\* Every enumeration (iteration order) of a finite set, as sequences.
Orders(S) ==
    {o \in [1..Cardinality(S) -> S] : \A i, j \in 1..Cardinality(S) : o[i] = o[j] => i = j}

\* Ipset._create_cmd: "create <name> <type> family <family> --exist"
create_cmd(name) == [op |-> "create", a |-> name, b |-> "-"]

\* Mutant: rewrites the live set in place, without the temp set and the swap.
replace_members_lines_inplace(set_name, temp_set_name, order) ==
    <<create_cmd(set_name), create_cmd(temp_set_name),
      [op |-> "flush", a |-> set_name, b |-> "-"]>>
    \o [i \in 1..Len(order) |-> [op |-> "add", a |-> set_name, b |-> order[i]]]
    \o <<[op |-> "destroy", a |-> temp_set_name, b |-> "-"]>>

\* Mutant: forgets to flush a left-over temp set before filling it.
replace_members_lines_noflush(set_name, temp_set_name, order) ==
    <<create_cmd(set_name), create_cmd(temp_set_name)>>
    \o [i \in 1..Len(order) |-> [op |-> "add", a |-> temp_set_name, b |-> order[i]]]
    \o <<[op |-> "swap", a |-> set_name, b |-> temp_set_name],
         [op |-> "destroy", a |-> temp_set_name, b |-> "-"]>>

\* Ipset.replace_members: the input_lines it builds, members in iteration order
replace_members_lines(set_name, temp_set_name, order) ==
    <<create_cmd(set_name), create_cmd(temp_set_name),
      [op |-> "flush", a |-> temp_set_name, b |-> "-"]>>
    \o [i \in 1..Len(order) |-> [op |-> "add", a |-> temp_set_name, b |-> order[i]]]
    \o <<[op |-> "swap", a |-> set_name, b |-> temp_set_name],
         [op |-> "destroy", a |-> temp_set_name, b |-> "-"]>>

\* Ipset._exec_and_commit appends the COMMIT line
exec_and_commit_lines(input_lines) == Append(input_lines, [op |-> "COMMIT", a |-> "-", b |-> "-"])

\* One line of the script applied to the kernel (the line did not fail).
ExecLine(k, ln) ==
    CASE ln.op = "create"  -> IF k[ln.a].exists THEN k ELSE [k EXCEPT ![ln.a] = KSet({})]
      [] ln.op = "flush"   -> [k EXCEPT ![ln.a] = KSet({})]
      [] ln.op = "add"     -> [k EXCEPT ![ln.a] = KSet(k[ln.a].members \cup {ln.b})]
      [] ln.op = "swap"    -> [k EXCEPT ![ln.a] = k[ln.b], ![ln.b] = k[ln.a]]
      [] ln.op = "destroy" -> [k EXCEPT ![ln.a] = Absent]
      [] OTHER             -> k

\* What a line needs of the kernel in order not to fail.
LineCanRun(k, ln) ==
    CASE ln.op = "flush"   -> k[ln.a].exists
      [] ln.op = "add"     -> k[ln.a].exists /\ ln.b \notin k[ln.a].members
      [] ln.op = "swap"    -> k[ln.a].exists /\ k[ln.b].exists
      [] ln.op = "destroy" -> k[ln.a].exists
      [] OTHER             -> TRUE

\* The first n lines of a script applied in order.
RECURSIVE RunLines(_, _, _)
RunLines(k, lines, n) ==
    IF n = 0 THEN k ELSE ExecLine(RunLines(k, lines, n - 1), lines[n])

\* The lines before line n can all run from kernel state k.
RECURSIVE CanRunLines(_, _, _)
CanRunLines(k, lines, n) ==
    IF n = 0 THEN TRUE
    ELSE /\ CanRunLines(k, lines, n - 1)
         /\ LineCanRun(RunLines(k, lines, n - 1), lines[n])

(***************************************************************************)
(* IpsetManager: the tag index                                             *)
(***************************************************************************)
Profiles == {"p1", "p2"}

Tags == {"t1", "t2"}

\* Tags that some profile's rules reference, so that a TagIpset is asked for.
ReferencedTags == {"t1"}

EndpointIds == {"e1", "e2"}

\* Nets as (address, prefix length); two nets may hold the same address.
Nets4 == {<<"ip1", 32>>, <<"ip1", 24>>, <<"ip2", 32>>}

Nets6 == {<<"ip6", 128>>}

\* futils.net_to_ip: the address part of a CIDR
net_to_ip(net) == net[1]

None == <<>>

Some(x) == <<x>>

\* dict helpers: d.get(k, default), d[k] = v, del d[k]
Get(d, k, default) == IF k \in DOMAIN d THEN d[k] ELSE default

Put(d, k, v) == [x \in (DOMAIN d) \cup {k} |-> IF x = k THEN v ELSE d[x]]

Del(d, k) == [x \in (DOMAIN d) \ {k} |-> d[x]]

EmptyDict == <<>>

\* The manager's IP family (ip_type) and IpsetManager.nets_key
ip_type == 4

nets_key == IF ip_type = 4 THEN "ipv4_nets" ELSE "ipv6_nets"

\* IpsetManager._extract_ips of an endpoint dict (None or Some(endpoint))
extract_ips(endpoint) ==
    IF endpoint = None THEN {}
    ELSE {net_to_ip(n) : n \in endpoint[1][nets_key]}

\* The index part of the manager's state, as one record.
IndexState(tags, eps, owners, profidx, dirty) ==
    [tags |-> tags, eps |-> eps, owners |-> owners, profidx |-> profidx, dirty |-> dirty]

\* IpsetManager.__init__
FreshIndex == IndexState(EmptyDict, EmptyDict, EmptyDict, EmptyDict, {})

\* Mutant of _add_mapping: never marks the tag dirty.
add_mapping_clean(st, tag_id, profile_id, endpoint_id, ip_address) ==
    LET tm == Get(st.owners, tag_id, EmptyDict)
        im == Get(tm, ip_address, EmptyDict)
        ep_ids == Get(im, profile_id, {}) \cup {endpoint_id}
    IN  [st EXCEPT
            !.owners = Put(st.owners, tag_id, Put(tm, ip_address, Put(im, profile_id, ep_ids)))]

\* IpsetManager._add_mapping
add_mapping(st, tag_id, profile_id, endpoint_id, ip_address) ==
    LET tm == Get(st.owners, tag_id, EmptyDict)
        im == Get(tm, ip_address, EmptyDict)
        ip_added == im = EmptyDict
        ep_ids == Get(im, profile_id, {}) \cup {endpoint_id}
    IN  [st EXCEPT
            !.owners = Put(st.owners, tag_id, Put(tm, ip_address, Put(im, profile_id, ep_ids))),
            !.dirty = IF ip_added THEN st.dirty \cup {tag_id} ELSE st.dirty]

\* Mutant of _remove_mapping: leaves the emptied entries in the index.
remove_mapping_keep(st, tag_id, profile_id, endpoint_id, ip_address) ==
    LET tm == Get(st.owners, tag_id, EmptyDict)
        im == Get(tm, ip_address, EmptyDict)
        ep_ids == Get(im, profile_id, {}) \ {endpoint_id}
    IN  [st EXCEPT !.owners =
            Put(st.owners, tag_id, Put(tm, ip_address, Put(im, profile_id, ep_ids)))]

\* IpsetManager._remove_mapping
remove_mapping(st, tag_id, profile_id, endpoint_id, ip_address) ==
    LET tm == Get(st.owners, tag_id, EmptyDict)
        im == Get(tm, ip_address, EmptyDict)
        ep_ids == Get(im, profile_id, {}) \ {endpoint_id}
        im2 == Del(im, profile_id)
        tm2 == Del(tm, ip_address)
    IN  IF ep_ids # {}
        THEN [st EXCEPT !.owners =
                Put(st.owners, tag_id, Put(tm, ip_address, Put(im, profile_id, ep_ids)))]
        ELSE IF im2 # EmptyDict
        THEN [st EXCEPT !.owners = Put(st.owners, tag_id, Put(tm, ip_address, im2))]
        ELSE [st EXCEPT
                !.owners = IF tm2 = EmptyDict THEN Del(st.owners, tag_id)
                           ELSE Put(st.owners, tag_id, tm2),
                !.dirty = st.dirty \cup {tag_id}]

\* "for x in xs: st = f(st, x)" over a set, in some iteration order.
RECURSIVE AddAll(_, _, _, _, _)
AddAll(st, pairs, endpoint_id, ips, todo) ==
    \* pairs: set of <<profile_id, tag>>; todo: the (pair, ip) combinations left
    IF todo = {} THEN st
    ELSE LET x == CHOOSE y \in todo : TRUE
         IN  AddAll(add_mapping(st, x[1][2], x[1][1], endpoint_id, x[2]),
                    pairs, endpoint_id, ips, todo \ {x})

RECURSIVE RemoveAll(_, _, _, _, _)
RemoveAll(st, pairs, endpoint_id, ips, todo) ==
    IF todo = {} THEN st
    ELSE LET x == CHOOSE y \in todo : TRUE
         IN  RemoveAll(remove_mapping(st, x[1][2], x[1][1], endpoint_id, x[2]),
                       pairs, endpoint_id, ips, todo \ {x})

\* for (profile_id, tag) in pairs: for ip in ips: _add_mapping(...)
AddMappings(st, pairs, endpoint_id, ips) ==
    AddAll(st, pairs, endpoint_id, ips, pairs \X ips)

\* for (profile_id, tag) in pairs: for ip in ips: _remove_mapping(...)
RemoveMappings(st, pairs, endpoint_id, ips) ==
    RemoveAll(st, pairs, endpoint_id, ips, pairs \X ips)

\* IpsetManager.on_tags_update, the loop body for one endpoint id
tags_update_endpoint(st, profile_id, endpoint_id, added_tags, removed_tags) ==
    LET endpoint == IF endpoint_id \in DOMAIN st.eps THEN Some(st.eps[endpoint_id])
                    ELSE Some([profile_ids |-> {}, ipv4_nets |-> {}, ipv6_nets |-> {}])
        ip_addrs == extract_ips(endpoint)
        st1 == RemoveMappings(st, {<<profile_id, t>> : t \in removed_tags}, endpoint_id, ip_addrs)
    IN  AddMappings(st1, {<<profile_id, t>> : t \in added_tags}, endpoint_id, ip_addrs)

RECURSIVE tags_update_endpoints(_, _, _, _, _)
tags_update_endpoints(st, profile_id, endpoint_ids, added_tags, removed_tags) ==
    IF endpoint_ids = {} THEN st
    ELSE LET e == CHOOSE x \in endpoint_ids : TRUE
         IN  tags_update_endpoints(
                 tags_update_endpoint(st, profile_id, e, added_tags, removed_tags),
                 profile_id, endpoint_ids \ {e}, added_tags, removed_tags)

\* IpsetManager.on_tags_update(profile_id, tags): tags is None or Some(set of tags)
on_tags_update(st, profile_id, tags) ==
    LET old_tags == Get(st.tags, profile_id, {})
        new_tags == IF tags = None THEN {} ELSE tags[1]
        endpoint_ids == Get(st.profidx, profile_id, {})
        added_tags == new_tags \ old_tags
        removed_tags == old_tags \ new_tags
        st1 == tags_update_endpoints(st, profile_id, endpoint_ids, added_tags, removed_tags)
    IN  [st1 EXCEPT !.tags = IF tags = None THEN Del(st.tags, profile_id)
                             ELSE Put(st.tags, profile_id, tags[1])]

\* IpsetManager._remove_profile_index
RECURSIVE remove_profile_index(_, _, _)
remove_profile_index(profidx, prof_ids, endpoint_id) ==
    IF prof_ids = {} THEN profidx
    ELSE LET p == CHOOSE x \in prof_ids : TRUE
             endpoints == Get(profidx, p, {}) \ {endpoint_id}
         IN  remove_profile_index(
                 IF endpoints = {} THEN Del(profidx, p) ELSE Put(profidx, p, endpoints),
                 prof_ids \ {p}, endpoint_id)

\* IpsetManager._add_profile_index
RECURSIVE add_profile_index(_, _, _)
add_profile_index(profidx, prof_ids, endpoint_id) ==
    IF prof_ids = {} THEN profidx
    ELSE LET p == CHOOSE x \in prof_ids : TRUE
         IN  add_profile_index(Put(profidx, p, Get(profidx, p, {}) \cup {endpoint_id}),
                               prof_ids \ {p}, endpoint_id)

\* The (profile_id, tag) pairs of a set of profile ids
ProfileTags(tags, prof_ids) ==
    {<<p, t>> : p \in prof_ids, t \in Tags} \cap
    {pt \in Profiles \X Tags : pt[2] \in Get(tags, pt[1], {})}

\* IpsetManager.on_endpoint_update(endpoint_id, endpoint): None or Some(endpoint)
on_endpoint_update(st, endpoint_id, endpoint) ==
    LET old_endpoint == IF endpoint_id \in DOMAIN st.eps THEN Some(st.eps[endpoint_id])
                        ELSE Some([profile_ids |-> {}, ipv4_nets |-> {}, ipv6_nets |-> {}])
        old_prof_ids == old_endpoint[1].profile_ids
        old_tags == ProfileTags(st.tags, old_prof_ids)
        new_prof_ids == IF endpoint = None THEN {} ELSE endpoint[1].profile_ids
        eps1 == IF endpoint = None THEN Del(st.eps, endpoint_id)
                ELSE Put(st.eps, endpoint_id, endpoint[1])
        new_tags == ProfileTags(st.tags, new_prof_ids)
        profidx1 == IF new_prof_ids # old_prof_ids
                    THEN add_profile_index(
                            remove_profile_index(st.profidx, old_prof_ids, endpoint_id),
                            new_prof_ids, endpoint_id)
                    ELSE st.profidx
        added_tags == new_tags \ old_tags
        unchanged_tags == new_tags \cap old_tags
        removed_tags == old_tags \ new_tags
        old_ips == extract_ips(old_endpoint)
        new_ips == extract_ips(endpoint)
        added_ips == new_ips \ old_ips
        removed_ips == old_ips \ new_ips
        st0 == [st EXCEPT !.eps = eps1, !.profidx = profidx1]
        st1 == AddMappings(st0, added_tags, endpoint_id, new_ips)
        st2 == RemoveMappings(st1, unchanged_tags, endpoint_id, removed_ips)
        st3 == AddMappings(st2, unchanged_tags, endpoint_id, added_ips)
    IN  RemoveMappings(st3, removed_tags, endpoint_id, old_ips)

\* for k, v in d.iteritems(): st = handler(st, k, Some(v)), in some order
RECURSIVE snapshot_tags(_, _, _)
snapshot_tags(st, tags_by_prof, todo) ==
    IF todo = {} THEN st
    ELSE LET p == CHOOSE x \in todo : TRUE
         IN  snapshot_tags(on_tags_update(st, p, Get(tags_by_prof, p, None)),
                           tags_by_prof, todo \ {p})

RECURSIVE snapshot_endpoints(_, _, _)
snapshot_endpoints(st, snap_endpoints, todo) ==
    IF todo = {} THEN st
    ELSE LET e == CHOOSE x \in todo : TRUE
         IN  snapshot_endpoints(on_endpoint_update(st, e, Get(snap_endpoints, e, None)),
                                snap_endpoints, todo \ {e})

\* IpsetManager.apply_snapshot(tags_by_prof_id, snap_endpoints)
apply_snapshot(st, tags_by_prof, snap_endpoints) ==
    LET somes(d) == [k \in DOMAIN d |-> Some(d[k])]
        missing_profile_ids == (DOMAIN st.tags) \ (DOMAIN tags_by_prof)
        st1 == snapshot_tags(st, somes(tags_by_prof), DOMAIN tags_by_prof)
        st2 == snapshot_tags(st1, EmptyDict, missing_profile_ids)
        missing_endpoints == (DOMAIN st2.eps) \ (DOMAIN snap_endpoints)
        st3 == snapshot_endpoints(st2, somes(snap_endpoints), DOMAIN snap_endpoints)
    IN  snapshot_endpoints(st3, EmptyDict, missing_endpoints)

\* IpsetManager._update_active_ipset: members = ip_owners_by_tag.get(tag_id, {}).keys()
MembersOf(owners, tag_id) == DOMAIN Get(owners, tag_id, EmptyDict)

(***************************************************************************)
(* Input values and bounds                                                 *)
(***************************************************************************)
MaxRef == 2

MaxQueue == 2

\* Updates the watcher delivers in SpecIndex: any of these to any profile or
\* endpoint id.
TagValues == {{}, {"t1"}, {"t1", "t2"}}

EndpointValues ==
    { [profile_ids |-> {"p1"}, ipv4_nets |-> {<<"ip1", 32>>}, ipv6_nets |-> {}],
      [profile_ids |-> {"p2"}, ipv4_nets |-> {<<"ip1", 24>>}, ipv6_nets |-> {<<"ip6", 128>>}],
      [profile_ids |-> {"p1", "p2"}, ipv4_nets |-> {<<"ip1", 32>>, <<"ip2", 32>>}, ipv6_nets |-> {}] }

\* Snapshots the watcher may hand over: (tags_by_prof_id, endpoints_by_id)
Snapshots ==
    { [tags |-> t, eps |-> e] :
        t \in {[p \in {"p1"} |-> {"t1"}], [p \in Profiles |-> {"t1", "t2"}]},
        e \in {[x \in {"e1"} |-> [profile_ids |-> {"p1"}, ipv4_nets |-> {<<"ip1", 32>>},
                                  ipv6_nets |-> {}]],
               [x \in EndpointIds |-> [profile_ids |-> {"p1", "p2"},
                                       ipv4_nets |-> {<<"ip1", 32>>, <<"ip2", 32>>},
                                       ipv6_nets |-> {}]]} }

\* Updates the watcher delivers in SpecTags, as (id, value) pairs: profile p1
\* gains and loses tag t1; two endpoints of p1 that share the address ip1 come
\* and go.
TagUpdates == {<<"p1", None>>, <<"p1", Some({"t1"})>>}

EndpointUpdates ==
    { <<"e1", None>>,
      <<"e1", Some([profile_ids |-> {"p1"}, ipv4_nets |-> {<<"ip1", 32>>}, ipv6_nets |-> {}])>>,
      <<"e2", None>>,
      <<"e2", Some([profile_ids |-> {"p1"}, ipv4_nets |-> {<<"ip1", 24>>, <<"ip2", 32>>},
                    ipv6_nets |-> {<<"ip6", 128>>}])>> }

SnapshotUpdates ==
    { [tags |-> [p \in {"p1"} |-> {"t1"}],
       eps |-> [x \in {"e1"} |-> [profile_ids |-> {"p1"}, ipv4_nets |-> {<<"ip1", 32>>},
                                  ipv6_nets |-> {}]]],
      [tags |-> EmptyDict,
       eps |-> [x \in {"e2"} |-> [profile_ids |-> {"p1"},
                                  ipv4_nets |-> {<<"ip1", 24>>, <<"ip2", 32>>},
                                  ipv6_nets |-> {<<"ip6", 128>>}]]] }

(***************************************************************************)
(* EndpointManager and LocalEndpoint: data and handlers                    *)
(***************************************************************************)
\* Endpoint ids that get a LocalEndpoint, interface names, profile ids
LocalIds == {"ep1"}

IfaceNames == {"tap1"}

ProfileIds == {"p1", "p2"}

\* socket.gethostname()
OUR_HOSTNAME == "here"

MaxEpRef == 2

MaxEpQueue == 2

MaxProfileRefs == 2

MaxRetries == 2

\* Endpoint dicts the watcher delivers for an endpoint id
EndpointData(id) ==
    { [name |-> "tap1", profile_id |-> "p1", id |-> id, host |-> OUR_HOSTNAME, state |-> "active"],
      [name |-> "tap1", profile_id |-> "p2", id |-> id, host |-> OUR_HOSTNAME, state |-> "active"],
      [name |-> "tap1", profile_id |-> "p1", id |-> id, host |-> OUR_HOSTNAME, state |-> "inactive"],
      [name |-> "tap1", profile_id |-> "p1", id |-> id, host |-> "other", state |-> "active"] }

\* Interface states the interface monitor reports for a name
IfaceStates(name) == { [name |-> name, up |-> u] : u \in BOOLEAN }

\* LocalEndpoint.__init__
FreshLocalEndpoint ==
    [endpoint |-> None, endpoint_id |-> None, iface_state |-> None,
     iface_name |-> None, failed |-> FALSE, profile |-> None]

\* Messages in a LocalEndpoint's mailbox
EndpointMsg(endpoint) == [kind |-> "on_endpoint_update", data |-> endpoint]

IfaceMsg(iface_state) == [kind |-> "on_interface_update", data |-> iface_state]

UnreferencedMsg == [kind |-> "on_unreferenced", data |-> None]

\* LocalEndpoint._missing_deps is empty
ready(ep) ==
    /\ ep.endpoint # None
    /\ ep.endpoint[1].state = "active"
    /\ ep.iface_state # None
    /\ ep.iface_state[1].up
    /\ ep.profile # None

\* What a LocalEndpoint handler works on: its own fields (ep), the kernel
\* chains and dispatch rules, the profile manager's counts, the retries it
\* has scheduled, the calls it has made so far (trace) and whether an
\* exception has ended it (raised).
World(ep, ch, dr, refs, retries) ==
    [chains |-> ch, ep |-> ep, refs |-> refs, retries |-> retries, dispatch |-> dr,
     trace |-> <<>>, raised |-> FALSE]

Call(w, op) == [w EXCEPT !.trace = Append(@, op)]

\* Mutant of LocalEndpoint._maybe_update: on becoming not ready the chains are
\* deleted before the dispatch rule is removed.
maybe_update_chains_first(w0, was_ready, fail, dispatch_raises) ==
    LET w == Call(w0, <<"_maybe_update">>)
        is_ready == ready(w.ep)
        ifce_name == w.ep.iface_name[1]
    IN  IF ~(w.ep.failed \/ is_ready # was_ready) THEN w
        ELSE IF is_ready
        THEN LET w1 == Call([w EXCEPT !.ep.failed = FALSE], <<"ensure_chains_programmed">>)
                 w2 == Call(w1, <<"_update_chains">>)
                 w3 == Call([w2 EXCEPT !.chains[ifce_name] = Some(w.ep.endpoint[1].profile_id),
                                        !.dispatch = @ \cup {ifce_name}],
                            <<"on_endpoint_chains_ready">>)
                 w4 == Call(w3, <<"_configure_interface">>)
                 failed(x) == Call([x EXCEPT !.ep.failed = TRUE, !.retries = @ + 1],
                                   <<"spawn_later">>)
             IN  IF fail = "chains" THEN failed(w2)
                 ELSE IF fail = "iface" THEN failed(w4)
                 ELSE w4
        ELSE LET w1 == [w EXCEPT !.ep.failed = FALSE]
                 w2 == IF w1.ep.endpoint_id = None THEN w1
                       ELSE Call([w1 EXCEPT !.chains[ifce_name] =
                                     IF fail = "chains" THEN @ ELSE None],
                                 <<"delete_chain", ifce_name \in w1.dispatch>>)
                 w3 == Call(w2, <<"remove_dispatch_rule">>)
             IN  IF dispatch_raises THEN [w3 EXCEPT !.raised = TRUE]
                 ELSE Call([w3 EXCEPT !.dispatch = @ \ {ifce_name}],
                           <<"_deconfigure_interface">>)

\* Mutant of LocalEndpoint._maybe_update: the failed flag is ignored, only a
\* change of readiness makes it act.
maybe_update_ignore_failed(w0, was_ready, fail, dispatch_raises) ==
    LET w == Call(w0, <<"_maybe_update">>)
        is_ready == ready(w.ep)
        ifce_name == w.ep.iface_name[1]
    IN  IF ~(is_ready # was_ready) THEN w
        ELSE IF is_ready
        THEN LET w1 == Call([w EXCEPT !.ep.failed = FALSE], <<"ensure_chains_programmed">>)
                 w2 == Call(w1, <<"_update_chains">>)
                 w3 == Call([w2 EXCEPT !.chains[ifce_name] = Some(w.ep.endpoint[1].profile_id),
                                        !.dispatch = @ \cup {ifce_name}],
                            <<"on_endpoint_chains_ready">>)
                 w4 == Call(w3, <<"_configure_interface">>)
                 failed(x) == Call([x EXCEPT !.ep.failed = TRUE, !.retries = @ + 1],
                                   <<"spawn_later">>)
             IN  IF fail = "chains" THEN failed(w2)
                 ELSE IF fail = "iface" THEN failed(w4)
                 ELSE w4
        ELSE LET w1 == Call([w EXCEPT !.ep.failed = FALSE], <<"remove_dispatch_rule">>)
                 w2 == [w1 EXCEPT !.dispatch = @ \ {ifce_name}]
                 w3 == IF w2.ep.endpoint_id = None THEN w2
                       ELSE Call([w2 EXCEPT !.chains[ifce_name] =
                                     IF fail = "chains" THEN @ ELSE None],
                                 <<"delete_chain", ifce_name \in w2.dispatch>>)
             IN  IF dispatch_raises THEN [w1 EXCEPT !.raised = TRUE]
                 ELSE Call(w3, <<"_deconfigure_interface">>)

\* LocalEndpoint._maybe_update(was_ready). fail names the dataplane call that
\* raises a system-call error ("none", "chains": apply_updates / delete_chain,
\* "iface": devices.configure_interface / add_route); dispatch_raises: the
\* synchronous remove_dispatch_rule raises.
maybe_update(w0, was_ready, fail, dispatch_raises) ==
    LET w == Call(w0, <<"_maybe_update">>)
        is_ready == ready(w.ep)
        ifce_name == w.ep.iface_name[1]
    IN  IF ~(w.ep.failed \/ is_ready # was_ready) THEN w
        ELSE IF is_ready
        THEN LET w1 == Call([w EXCEPT !.ep.failed = FALSE], <<"ensure_chains_programmed">>)
                 w2 == Call(w1, <<"_update_chains">>)
                 w3 == Call([w2 EXCEPT !.chains[ifce_name] = Some(w.ep.endpoint[1].profile_id),
                                        !.dispatch = @ \cup {ifce_name}],
                            <<"on_endpoint_chains_ready">>)
                 w4 == Call(w3, <<"_configure_interface">>)
                 failed(x) == Call([x EXCEPT !.ep.failed = TRUE, !.retries = @ + 1],
                                   <<"spawn_later">>)
             IN  IF fail = "chains" THEN failed(w2)
                 ELSE IF fail = "iface" THEN failed(w4)
                 ELSE w4
        ELSE LET w1 == Call([w EXCEPT !.ep.failed = FALSE], <<"remove_dispatch_rule">>)
                 w2 == [w1 EXCEPT !.dispatch = @ \ {ifce_name}]
                 w3 == IF w2.ep.endpoint_id = None THEN w2
                       ELSE Call([w2 EXCEPT !.chains[ifce_name] =
                                     IF fail = "chains" THEN @ ELSE None],
                                 <<"delete_chain", ifce_name \in w2.dispatch>>)
             IN  IF dispatch_raises THEN [w1 EXCEPT !.raised = TRUE]
                 ELSE Call(w3, <<"_deconfigure_interface">>)

\* Lines 141-144 and 169-171: the interface name and endpoint id are learnt once.
learn_names(ep, endpoint) ==
    IF endpoint # None /\ (ep.iface_name = None \/ ep.endpoint_id = None)
    THEN [ep EXCEPT !.iface_name = Some(endpoint[1].name), !.endpoint_id = Some(endpoint[1].id)]
    ELSE ep

\* Mutant of LocalEndpoint.on_endpoint_update: releases the old profile first.
on_endpoint_update_decref_first(w0, endpoint, fail, dispatch_raises) ==
    LET ep0 == learn_names(w0.ep, endpoint)
        was_ready == ready(ep0)
        old_profile_id == IF ep0.endpoint = None THEN None ELSE Some(ep0.endpoint[1].profile_id)
        new_profile_id == IF endpoint = None THEN None ELSE Some(endpoint[1].profile_id)
        old_profile == ep0.profile
        changed == old_profile_id # new_profile_id
        w1 == IF changed /\ old_profile # None
              THEN Call([w0 EXCEPT !.refs[old_profile_id[1]] = @ - 1],
                        <<"decref", old_profile_id[1], w0.chains[ep0.iface_name[1]]>>)
              ELSE w0
        w2 == IF changed /\ new_profile_id # None
              THEN Call([w1 EXCEPT !.refs[new_profile_id[1]] = @ + 1],
                        <<"get_and_incref", new_profile_id[1]>>)
              ELSE w1
        ep1 == [ep0 EXCEPT !.profile = IF changed THEN new_profile_id ELSE @,
                           !.endpoint = endpoint]
    IN  maybe_update([w2 EXCEPT !.ep = ep1], was_ready, fail, dispatch_raises)

\* LocalEndpoint.on_endpoint_update(endpoint): endpoint is None or Some(dict)
le_on_endpoint_update(w0, endpoint, fail, dispatch_raises) ==
    LET ep0 == learn_names(w0.ep, endpoint)
        was_ready == ready(ep0)
        old_profile_id == IF ep0.endpoint = None THEN None ELSE Some(ep0.endpoint[1].profile_id)
        new_profile_id == IF endpoint = None THEN None ELSE Some(endpoint[1].profile_id)
        old_profile == ep0.profile
        changed == old_profile_id # new_profile_id
        w1 == IF changed /\ new_profile_id # None
              THEN Call([w0 EXCEPT !.refs[new_profile_id[1]] = @ + 1],
                        <<"get_and_incref", new_profile_id[1]>>)
              ELSE w0
        ep1 == [ep0 EXCEPT !.profile = IF changed THEN new_profile_id ELSE @,
                           !.endpoint = endpoint]
        w2 == maybe_update([w1 EXCEPT !.ep = ep1], was_ready, fail, dispatch_raises)
    IN  IF ~w2.raised /\ changed /\ old_profile # None
        THEN Call([w2 EXCEPT !.refs[old_profile_id[1]] = @ - 1],
                  <<"decref", old_profile_id[1], w2.chains[ep1.iface_name[1]]>>)
        ELSE w2

\* LocalEndpoint.on_interface_update(iface_state): None or Some(iface_state)
le_on_interface_update(w0, iface_state, fail, dispatch_raises) ==
    LET ep0 == IF iface_state # None /\ w0.ep.iface_name = None
               THEN [w0.ep EXCEPT !.iface_name = Some(iface_state[1].name)]
               ELSE w0.ep
        was_ready == ready(ep0)
        ep1 == [ep0 EXCEPT !.iface_state = iface_state]
    IN  maybe_update([w0 EXCEPT !.ep = ep1], was_ready, fail, dispatch_raises)

(***************************************************************************)
(* frules: port lists                                                      *)
(***************************************************************************)
\* A port string is the sequence of its runs of digits and its colons:
\* "7" is <<"7">>, "0:10" is <<"0", ":", "10">>. An entry of a port list is an
\* int or a string.
MAX_MULTIPORT_ENTRIES == 15

MaxPortNumber == 7

LongPrefix == 12

MaxExtraPorts == 4

IntPort(n) == [int |-> <<n>>, text |-> <<>>]

StrPort(text) == [int |-> <<>>, text |-> text]

RangeText(a, b) == <<ToString(a), ":", ToString(b)>>

\* str(p)
str(p) == IF p.int # <<>> THEN <<ToString(p.int[1])>> ELSE p.text

\* ":" in port_or_range
is_range(text) == \E k \in DOMAIN text : text[k] = ":"

\* p.startswith("0:") and p.endswith(":0")
startswith_zero(text) == Len(text) >= 2 /\ text[1] = "0" /\ text[2] = ":"

endswith_zero(text) == Len(text) >= 2 /\ text[Len(text)] = "0" /\ text[Len(text) - 1] = ":"

\* Mutant of _filter_zero_ports: an entry with a zero endpoint is dropped whole.
RECURSIVE filter_zero_ports_drop(_)
filter_zero_ports_drop(port_list) ==
    IF port_list = <<>> THEN [zero_present |-> FALSE, filtered_ports |-> <<>>]
    ELSE LET p == str(Head(port_list))
             rest == filter_zero_ports_drop(Tail(port_list))
             has_zero == \/ p \in {<<"0">>, <<"0", ":", "0">>, <<"0", ":", "1">>, <<"1", ":", "0">>}
                         \/ startswith_zero(p)
                         \/ endswith_zero(p)
         IN  [zero_present |-> has_zero \/ rest.zero_present,
              filtered_ports |-> (IF has_zero THEN <<>> ELSE <<p>>) \o rest.filtered_ports]

\* frules._filter_zero_ports(ports)
RECURSIVE filter_zero_ports(_)
filter_zero_ports(port_list) ==
    IF port_list = <<>> THEN [zero_present |-> FALSE, filtered_ports |-> <<>>]
    ELSE LET p == str(Head(port_list))
             rest == filter_zero_ports(Tail(port_list))
             zero == \/ p \in {<<"0">>, <<"0", ":", "0">>, <<"0", ":", "1">>, <<"1", ":", "0">>}
                     \/ startswith_zero(p)
                     \/ endswith_zero(p)
             kept == IF p \in {<<"0">>, <<"0", ":", "0">>} THEN <<>>
                     ELSE IF p \in {<<"0", ":", "1">>, <<"1", ":", "0">>} THEN << <<"1">> >>
                     ELSE IF startswith_zero(p) THEN << <<"1">> \o Tail(p) >>
                     ELSE IF endswith_zero(p) THEN << SubSeq(p, 1, Len(p) - 1) \o <<"1">> >>
                     ELSE <<p>>
         IN  [zero_present |-> zero \/ rest.zero_present,
              filtered_ports |-> kept \o rest.filtered_ports]

\* Mutant of the loop of _split_port_lists: a full chunk is never closed.
RECURSIVE split_loop_never(_, _, _, _)
split_loop_never(port_list, chunks, chunk, entries_in_chunk) ==
    IF port_list = <<>>
    THEN IF chunk # <<>> \/ chunks = <<>> THEN Append(chunks, chunk) ELSE chunks
    ELSE split_loop_never(Tail(port_list), chunks, Append(chunk, Head(port_list)),
                          entries_in_chunk + 1)

\* The loop of frules._split_port_lists and the statement after it
RECURSIVE split_loop(_, _, _, _)
split_loop(port_list, chunks, chunk, entries_in_chunk) ==
    IF port_list = <<>>
    THEN IF chunk # <<>> \/ chunks = <<>> THEN Append(chunks, chunk) ELSE chunks
    ELSE LET port_or_range == Head(port_list)
             num_entries == IF is_range(port_or_range) THEN 2 ELSE 1
         IN  IF entries_in_chunk + num_entries > MAX_MULTIPORT_ENTRIES
             THEN split_loop(Tail(port_list), Append(chunks, chunk),
                             <<port_or_range>>, num_entries)
             ELSE split_loop(Tail(port_list), chunks, Append(chunk, port_or_range),
                             entries_in_chunk + num_entries)

\* frules._split_port_lists(ports)
split_port_lists(port_list) ==
    LET f == filter_zero_ports(port_list)
        chunks == IF f.zero_present THEN << << <<"0">> >> >> ELSE <<>>
    IN  split_loop(f.filtered_ports, chunks, <<>>, 0)

\* The two assertions of _rule_to_iptables_fragment on a port list of more
\* than one entry: "Caller should have removed 0-ports" and "Too many ports".
RECURSIVE num_ports(_)
num_ports(ports_list) ==
    IF ports_list = <<>> THEN 0
    ELSE (IF is_range(Head(ports_list)) THEN 2 ELSE 1) + num_ports(Tail(ports_list))

port_asserts_hold(ports_list) ==
    Len(ports_list) > 1 =>
        /\ \A k \in DOMAIN ports_list :
               ports_list[k] # <<"0">> /\ ~startswith_zero(ports_list[k])
        /\ num_ports(ports_list) <= 15

\* The port lists the checks start from and the entries they are extended by
PrefixPorts(n) == [k \in 1..n |-> IntPort(k)]

ExtraPorts ==
    { IntPort(0), IntPort(MaxPortNumber), StrPort(<<"0">>), StrPort(RangeText(2, 3)),
      StrPort(RangeText(0, 0)), StrPort(RangeText(0, 1)), StrPort(RangeText(1, 0)),
      StrPort(RangeText(0, 5)), StrPort(RangeText(5, 0)) }

(***************************************************************************)
(* frules: rules to iptables fragments                                     *)
(***************************************************************************)
\* A fragment is the list update_fragments before " ".join: a sequence of
\* words, each word the sequence of its pieces of text.
Word(text) == <<text>>

CHAIN_NAME == "chain-foo"

ON_ALLOW == "ACCEPT"

ON_DENY == "DROP"

\* tag_to_ipset
TAG_TO_IPSET == [t \in {"tag-foo", "tag-bar"} |-> IF t = "tag-foo" THEN "ipset-foo" ELSE "ipset-bar"]

\* ":" in ip_or_cidr
Nets == {"10.0.0.0/8", "1234::beef"}

net_has_colon(ip_or_cidr) == ip_or_cidr = "1234::beef"

\* A rule dict; a key that is absent is None, a port list that is absent is <<>>
Rule(protocol, src_net, dst_net, src_tag, dst_tag, src_ports, dst_ports, icmp_type, icmp_code, action, rule_version) ==
    [protocol |-> protocol, src_net |-> src_net, dst_net |-> dst_net,
     src_tag |-> src_tag, dst_tag |-> dst_tag, src_ports |-> src_ports,
     dst_ports |-> dst_ports, icmp_type |-> icmp_type, icmp_code |-> icmp_code,
     action |-> action, ip_version |-> rule_version]

\* A fragment under construction, or the exception that ended it
Built(words) == [raised |-> FALSE, words |-> words]

Raised == [raised |-> TRUE, words |-> <<>>]

Then(b, words) == IF b.raised THEN b ELSE Built(b.words \o words)

\* ",".join(port_parts)
RECURSIVE join_ports(_)
join_ports(port_parts) ==
    IF Len(port_parts) = 1 THEN Head(port_parts)
    ELSE Head(port_parts) \o <<",">> \o join_ports(Tail(port_parts))

\* The body of "for dirn in ['src', 'dst']" in _rule_to_iptables_fragment
direction_matches(b, rule, dirn, ip_version) ==
    LET direction == IF dirn = "src" THEN "source" ELSE "destination"
        net == IF dirn = "src" THEN rule.src_net ELSE rule.dst_net
        tag == IF dirn = "src" THEN rule.src_tag ELSE rule.dst_tag
        ports_list == IF dirn = "src" THEN rule.src_ports ELSE rule.dst_ports
        b1 == IF net # None /\ (net_has_colon(net[1]) = (ip_version = 6))
              THEN Then(b, <<Word("--" \o direction), Word(net[1])>>)
              ELSE b
        b2 == IF tag = None THEN b1
              ELSE IF tag[1] \notin DOMAIN TAG_TO_IPSET THEN Raised
              ELSE Then(b1, <<Word("--match set"), Word("--match-set"),
                              Word(TAG_TO_IPSET[tag[1]]), Word(dirn)>>)
    IN  IF ports_list = <<>> THEN b2
        ELSE IF rule.protocol = None \/ rule.protocol[1] \notin {"tcp", "udp"} THEN Raised
        ELSE IF Len(ports_list) > 1
        THEN IF ~port_asserts_hold(ports_list) THEN Raised
             ELSE Then(b2, <<Word("--match multiport"), Word("--" \o direction \o "-ports"),
                             join_ports(ports_list)>>)
        ELSE Then(b2, <<Word("--match"), Word(rule.protocol[1]),
                        Word("--" \o direction \o "-port"), ports_list[1]>>)

\* The icmp_type part of _rule_to_iptables_fragment
icmp_matches(b, rule, ip_version) ==
    LET proto == rule.protocol
        icmp_filter == IF rule.icmp_code # None
                       THEN <<ToString(rule.icmp_type[1]), "/", ToString(rule.icmp_code[1])>>
                       ELSE <<ToString(rule.icmp_type[1])>>
    IN  IF rule.icmp_type = None THEN b
        ELSE IF rule.icmp_type[1] = 255 THEN Raised
        ELSE IF proto = Some("icmp") /\ ip_version = 4
        THEN Then(b, <<Word("--match icmp"), Word("--icmp-type"), icmp_filter>>)
        ELSE IF ip_version = 6
        THEN IF proto # Some("icmpv6") THEN Raised
             ELSE Then(b, <<Word("--match icmp6"), Word("--icmpv6-type"), icmp_filter>>)
        ELSE b

\* Mutant of _rule_to_iptables_fragment: the matches are added kind by kind
\* (nets, tags, ports) rather than direction by direction.
rule_to_iptables_fragment_by_kind(chain_name, rule, ip_version, on_allow, on_deny) ==
    LET none == [rule EXCEPT !.src_net = None, !.dst_net = None, !.src_tag = None,
                             !.dst_tag = None, !.src_ports = <<>>, !.dst_ports = <<>>]
        nets == [none EXCEPT !.src_net = rule.src_net, !.dst_net = rule.dst_net]
        tags == [none EXCEPT !.src_tag = rule.src_tag, !.dst_tag = rule.dst_tag]
        prts == [none EXCEPT !.src_ports = rule.src_ports, !.dst_ports = rule.dst_ports]
        b0 == Built(<<Word("--append"), Word(chain_name)>>)
        b1 == IF rule.protocol # None
              THEN Then(b0, <<Word("--protocol"), Word(rule.protocol[1])>>) ELSE b0
        b2 == direction_matches(direction_matches(b1, nets, "src", ip_version),
                                nets, "dst", ip_version)
        b3 == direction_matches(direction_matches(b2, tags, "src", ip_version),
                                tags, "dst", ip_version)
        b4 == direction_matches(direction_matches(b3, prts, "src", ip_version),
                                prts, "dst", ip_version)
        b5 == icmp_matches(b4, rule, ip_version)
    IN  Then(b5, <<Word("--jump"),
                   Word(IF rule.action \in {None, Some("allow")} THEN on_allow ELSE on_deny)>>)

\* frules._rule_to_iptables_fragment
rule_to_iptables_fragment(chain_name, rule, ip_version, on_allow, on_deny) ==
    LET b0 == Built(<<Word("--append"), Word(chain_name)>>)
        b1 == IF rule.protocol # None
              THEN Then(b0, <<Word("--protocol"), Word(rule.protocol[1])>>) ELSE b0
        b2 == direction_matches(b1, rule, "src", ip_version)
        b3 == direction_matches(b2, rule, "dst", ip_version)
        b4 == icmp_matches(b3, rule, ip_version)
    IN  Then(b4, <<Word("--jump"),
                   Word(IF rule.action \in {None, Some("allow")} THEN on_allow ELSE on_deny)>>)

\* frules.commented_drop_fragment
commented_drop_fragment(chain_name, comment) ==
    <<Word("--append"), Word(chain_name), Word("--jump"), Word("DROP"),
      Word("-m"), Word("comment"), Word("--comment"), Word(comment)>>

\* itertools.product(src_port_chunks, dst_port_chunks), the first list outermost
product(xs, ys) ==
    [k \in 1..(Len(xs) * Len(ys)) |->
        <<xs[((k - 1) \div Len(ys)) + 1], ys[((k - 1) % Len(ys)) + 1]>>]

\* Mutant of rule_to_iptables_fragments: an exception drops the offending
\* fragment only.
rule_to_iptables_fragments_skip(chain_name, rule, ip_version, on_allow, on_deny) ==
    LET pairs == product(split_port_lists(rule.src_ports), split_port_lists(rule.dst_ports))
        frags == [k \in DOMAIN pairs |->
                     rule_to_iptables_fragment(
                         chain_name,
                         [rule EXCEPT !.src_ports = pairs[k][1], !.dst_ports = pairs[k][2]],
                         ip_version, on_allow, on_deny)]
        good == SelectSeq(frags, LAMBDA f : ~f.raised)
    IN  [k \in DOMAIN good |-> good[k].words]

\* frules.rule_to_iptables_fragments
rule_to_iptables_fragments(chain_name, rule, ip_version, on_allow, on_deny) ==
    LET pairs == product(split_port_lists(rule.src_ports), split_port_lists(rule.dst_ports))
        frags == [k \in DOMAIN pairs |->
                     rule_to_iptables_fragment(
                         chain_name,
                         [rule EXCEPT !.src_ports = pairs[k][1], !.dst_ports = pairs[k][2]],
                         ip_version, on_allow, on_deny)]
    IN  IF \E k \in DOMAIN frags : frags[k].raised
        THEN <<commented_drop_fragment(chain_name, "ERROR failed to parse rules DROP:")>>
        ELSE [k \in DOMAIN frags |-> frags[k].words]

\* The terminal fragment of a chain
MarkFragment(chain_name) ==
    <<Word("--append"), Word(chain_name), Word("--match comment"),
      Word("--comment \"Mark as not matched\""), Word("--jump MARK"), Word("--set-mark 1")>>

\* Mutant of rules_to_chain_rewrite_lines: rules of the other family are kept.
RECURSIVE rules_to_chain_rewrite_lines_all(_, _, _, _, _)
rules_to_chain_rewrite_lines_all(chain_name, rule_list, ip_version, on_allow, on_deny) ==
    IF rule_list = <<>> THEN <<MarkFragment(chain_name)>>
    ELSE rule_to_iptables_fragments(chain_name, Head(rule_list), ip_version, on_allow, on_deny)
         \o rules_to_chain_rewrite_lines_all(chain_name, Tail(rule_list), ip_version,
                                             on_allow, on_deny)

\* frules.rules_to_chain_rewrite_lines
RECURSIVE rules_to_chain_rewrite_lines(_, _, _, _, _)
rules_to_chain_rewrite_lines(chain_name, rule_list, ip_version, on_allow, on_deny) ==
    IF rule_list = <<>> THEN <<MarkFragment(chain_name)>>
    ELSE LET r == Head(rule_list)
             rule_version == r.ip_version
         IN  (IF rule_version = None \/ rule_version = Some(ip_version)
              THEN rule_to_iptables_fragments(chain_name, r, ip_version, on_allow, on_deny)
              ELSE <<>>)
             \o rules_to_chain_rewrite_lines(chain_name, Tail(rule_list), ip_version,
                                             on_allow, on_deny)

\* No chain is being compiled
RulesIdle ==
    /\ rules = <<>>
    /\ chain_version = 4
    /\ fragments = rules_to_chain_rewrite_lines(CHAIN_NAME, <<>>, 4, ON_ALLOW, ON_DENY)

\* No rule is being compiled
PortsIdle ==
    /\ ports = <<>>
    /\ port_chunks = split_port_lists(<<>>)

(***************************************************************************)
(* fetcd: EtcdAPI and the watcher greenlet                                 *)
(***************************************************************************)
MaxSent == 2

\* The values the Ready key and the config may have in the store
ReadyValues == {None, Some("true"), Some("false")}

\* A config dict as read from the store: empty, or enabling IP-in-IP
ConfigValues == {"{}", "{IpInIpEnabled: true}"}

EmptyConfig == [host |-> "{}", global |-> "{}"]

MaxEvents == 1

\* The directories whose deletion ends the poll
RESYNC_KEYS == {"VERSION_DIR", "POLICY_DIR", "PROFILE_DIR", "CONFIG_DIR", "HOST_DIR",
                "IPAM_DIR", "IPAM_V4_DIR", "POOL_V4_DIR"}

\* The keys of the other registrations that matter to the poll: the Ready key,
\* a global and a per-host config parameter, and a record (endpoint, tags,
\* rules or pool) whose handlers send an update to the splitter.
READY_KEY == "READY_KEY"

ConfigKeys == {"CONFIG_PARAM_KEY", "PER_HOST_CONFIG_PARAM_KEY"}

RecordKey == "RECORD_KEY"

EventKeys == RESYNC_KEYS \cup {READY_KEY, RecordKey} \cup ConfigKeys

Event(action, key, value) == [action |-> action, key |-> key, value |-> value]

\* _EtcdWatcher.__init__: the handlers registered with the dispatcher; "" where
\* none is registered.
Registered(key) ==
    IF key \in RESYNC_KEYS THEN [on_set |-> "", on_del |-> "_resync"]
    ELSE IF key = READY_KEY THEN [on_set |-> "on_ready_flag_set", on_del |-> "_resync"]
    ELSE IF key \in ConfigKeys THEN [on_set |-> "_resync", on_del |-> "_resync"]
    ELSE [on_set |-> "on_record_set", on_del |-> "on_record_delete"]

\* Mutant of on_ready_flag_set: never raises.
on_ready_flag_set_ignore(response) == "none"

\* on_ready_flag_set: "ResyncRequired" when it raises
on_ready_flag_set(response) ==
    IF response.value # "true" THEN "ResyncRequired" ELSE "none"

\* Mutant of handle_event: only a deletion of a directory ends the poll.
handle_event_dirs_only(response) ==
    LET h == IF response.action = "set" THEN Registered(response.key).on_set
             ELSE Registered(response.key).on_del
    IN  IF h = "_resync" /\ response.key \in RESYNC_KEYS THEN "ResyncRequired"
        ELSE IF h = "on_ready_flag_set" THEN on_ready_flag_set(response)
        ELSE IF h \in {"on_record_set", "on_record_delete"} THEN "send"
        ELSE "none"

\* dispatcher.handle_event(response): what the handler for the event does:
\* "ResyncRequired" if it raises, "send" if it sends an update to the splitter.
handle_event(response) ==
    LET h == IF response.action = "set" THEN Registered(response.key).on_set
             ELSE Registered(response.key).on_del
    IN  IF h = "_resync" THEN "ResyncRequired"
        ELSE IF h = "on_ready_flag_set" THEN on_ready_flag_set(response)
        ELSE IF h \in {"on_record_set", "on_record_delete"} THEN "send"
        ELSE "none"

\* config.IP_IN_IP_ENABLED: the config object is populated by the first load,
\* from the per-host and the global dict.
IP_IN_IP_ENABLED ==
    /\ last_config # <<>>
    /\ "{IpInIpEnabled: true}" \in {last_config[1].global, last_config[1].host}

\* Nothing done yet in this pass of the loop of _run
FreshRound == [ready_read |-> FALSE, config_loaded |-> FALSE, begun |-> FALSE]

\* _EtcdWatcher.__init__ and EtcdAPI.__init__: the greenlet is started and has
\* not run yet; no event is set.
FetcdIdle ==
    /\ w_state = "INIT"
    /\ load_config = FALSE
    /\ begin_polling = FALSE
    /\ configured = FALSE
    /\ splitter = None
    /\ store_ready = None
    /\ store_config = EmptyConfig
    /\ last_config = None
    /\ w_round = FreshRound
    /\ w_sent = <<>>
    /\ api_trace = <<>>
    /\ w_events = <<>>
    /\ cfg_reports = 0
    /\ exit_code = None
    /\ w_last = ""

\* The fields of the watcher that the handlers of EtcdAPI write
ApiView == [load_config |-> load_config, begin_polling |-> begin_polling,
            splitter |-> splitter]

\* One statement of a handler of EtcdAPI
Exec(a, stmt, arg) ==
    IF stmt = "load_config.set" THEN [a EXCEPT !.load_config = TRUE]
    ELSE IF stmt = "splitter =" THEN [a EXCEPT !.splitter = Some(arg)]
    ELSE [a EXCEPT !.begin_polling = TRUE]

RECURSIVE ExecAll(_, _, _)
ExecAll(a, stmts, arg) ==
    IF stmts = <<>> THEN a ELSE ExecAll(Exec(a, Head(stmts), arg), Tail(stmts), arg)

\* EtcdAPI.load_config
load_config_stmts == <<"load_config.set">>

\* Mutant of EtcdAPI.start_watch: begin_polling is set before the splitter.
start_watch_stmts_begin_first == <<"load_config.set", "begin_polling.set", "splitter =">>

\* EtcdAPI.start_watch(splitter)
start_watch_stmts == <<"load_config.set", "splitter =", "begin_polling.set">>

(***************************************************************************)
(* fetcd: the handlers of record events and of directory deletions         *)
(***************************************************************************)
\* EndpointId(host, orchestrator, workload, endpoint)
EndpointId(host, orchestrator, workload, endpoint) == <<host, orchestrator, workload, endpoint>>

\* The endpoints of the model: one, and one more in another workload, in
\* another orchestrator and on another host.
RecEndpointIds ==
    {EndpointId("h1", "o1", "w1", "e1"), EndpointId("h1", "o1", "w2", "e1"),
     EndpointId("h1", "o2", "w1", "e1"), EndpointId("h2", "o1", "w1", "e1")}

RecHosts == {id[1] : id \in RecEndpointIds}

\* The values of a record key: one that decodes and validates, one that is
\* not JSON, one that decodes and fails validation.
RawValues == {"{valid}", "not json", "{invalid}"}

\* safe_decode_json: None if json_decoder.decode raises
safe_decode_json(raw_json) == IF raw_json = "not json" THEN None ELSE Some(raw_json)

\* common.validate_endpoint / validate_rules / validate_tags /
\* validate_ipam_pool: TRUE if ValidationFailed is raised
ValidationFailed(decoded) == decoded = None \/ decoded = Some("{invalid}")

\* Mutant of parse_endpoint: the decoded value is returned unvalidated.
parse_endpoint_unvalidated(raw_json) == safe_decode_json(raw_json)

parse_endpoint(raw_json) ==
    LET endpoint == safe_decode_json(raw_json)
    IN  IF ValidationFailed(endpoint) THEN None ELSE endpoint

parse_rules(raw_json) ==
    LET decoded == safe_decode_json(raw_json)
    IN  IF ValidationFailed(decoded) THEN None ELSE decoded

parse_tags(raw_json) ==
    LET decoded == safe_decode_json(raw_json)
    IN  IF ValidationFailed(decoded) THEN None ELSE decoded

parse_ipam_pool(raw_json) ==
    LET decoded == safe_decode_json(raw_json)
    IN  IF ValidationFailed(decoded) THEN None ELSE decoded

\* A message to the splitter
Msg(op, id, value) == [op |-> op, id |-> id, value |-> value]

\* What a handler does: the cache it leaves and the messages it sends
Handled(cache, sent) == [cache |-> cache, sent |-> sent]

\* self.endpoint_ids_per_host[host], a defaultdict(set)
IdsOn(cache, host) == Get(cache, host, {})

\* "if not self.endpoint_ids_per_host[host]: del self.endpoint_ids_per_host[host]"
DelIfEmpty(cache, host) == IF IdsOn(cache, host) = {} THEN Del(cache, host) ELSE cache

on_endpoint_set(cache, combined_id, value) ==
    Handled(Put(cache, combined_id[1], IdsOn(cache, combined_id[1]) \cup {combined_id}),
            <<Msg("on_endpoint_update", combined_id, parse_endpoint(value))>>)

on_endpoint_delete(cache, combined_id) ==
    Handled(DelIfEmpty(Put(cache, combined_id[1], IdsOn(cache, combined_id[1]) \ {combined_id}),
                       combined_id[1]),
            <<Msg("on_endpoint_update", combined_id, None)>>)

on_rules_set(cache, profile_id, value) ==
    Handled(cache, <<Msg("on_rules_update", profile_id, parse_rules(value))>>)

on_rules_delete(cache, profile_id) ==
    Handled(cache, <<Msg("on_rules_update", profile_id, None)>>)

on_tags_set(cache, profile_id, value) ==
    Handled(cache, <<Msg("on_tags_update", profile_id, parse_tags(value))>>)

on_tags_delete(cache, profile_id) ==
    Handled(cache, <<Msg("on_tags_update", profile_id, None)>>)

on_ipam_v4_pool_set(cache, pool_id, value) ==
    Handled(cache, <<Msg("on_ipam_pool_update", pool_id, parse_ipam_pool(value))>>)

on_ipam_v4_pool_delete(cache, pool_id) ==
    Handled(cache, <<Msg("on_ipam_pool_update", pool_id, None)>>)

\* The orders in which a loop over the set ids may visit it
Orders_of(ids) ==
    {order \in [1..Cardinality(ids) -> ids] : \A i, j \in DOMAIN order : i # j => order[i] # order[j]}

Deletions(order) == [k \in DOMAIN order |-> Msg("on_endpoint_update", order[k], None)]

\* Mutant of on_host_delete: the ids of the host are read and left in the
\* cache.
on_host_delete_keep(cache, hostname, order) ==
    Handled(cache, Deletions(order))

\* on_host_delete; order is the order in which the loop visits
\* ids_on_that_host.  With IP-in-IP disabled on_host_ip_delete returns at once.
on_host_delete(cache, hostname, order) ==
    Handled(Del(cache, hostname), Deletions(order))

\* The loop of on_orch_delete and on_workload_delete over the host's ids, in
\* the order given: the ids in picked are sent as deletions and discarded.
DeleteEach(cache, hostname, order, picked) ==
    LET Pick(id) == id \in picked
    IN  Handled(DelIfEmpty(Put(cache, hostname, IdsOn(cache, hostname) \ picked), hostname),
                Deletions(SelectSeq(order, Pick)))

on_orch_delete(cache, hostname, orchestrator, order) ==
    DeleteEach(cache, hostname, order,
               {id \in IdsOn(cache, hostname) : id[2] = orchestrator})

\* Mutant of on_workload_delete: the orchestrator is not compared.
on_workload_delete_any_orch(cache, hostname, orchestrator, workload_id, order) ==
    DeleteEach(cache, hostname, order,
               {id \in IdsOn(cache, hostname) : id[3] = workload_id})

on_workload_delete(cache, hostname, orchestrator, workload_id, order) ==
    DeleteEach(cache, hostname, order,
               {id \in IdsOn(cache, hostname) : id[2] = orchestrator /\ id[3] = workload_id})

\* _load_initial_dump, the endpoints: entries maps the endpoint keys of the
\* snapshot to their values.  The cache is cleared and holds the ids whose
\* value parses.
snapshot_endpoint_ids(entries) ==
    LET ids == {id \in DOMAIN entries : parse_endpoint(entries[id]) # None}
    IN  [host \in {id[1] : id \in ids} |-> {id \in ids : id[1] = host}]

\* Before the first snapshot
RecordsIdle ==
    /\ endpoint_ids_per_host = EmptyDict
    /\ sp_sent = <<>>
    /\ rec_last = <<>>
    /\ rec_latest = [id \in RecEndpointIds |-> "absent"]
    /\ ipv4_by_hostname = EmptyDict
    /\ hosts_sent = None
    /\ store_bird_ip = EmptyDict

(***************************************************************************)
(* felix.main, _main_greenlet and the greenlets of EtcdAPI                 *)
(***************************************************************************)
\* Greenlets in the list that _main_greenlet waits on (three of them)
RootChildren == {"update_sequencer", "watch_etcd", "watch_interfaces"}

\* The greenlets that EtcdAPI.__init__ starts
EtcdTasks == {"watcher", "resync", "status"}

\* How EtcdAPI.__init__ links _on_worker_died to each of them
Linked(task) == IF task = "watcher" THEN "link" ELSE "link_exception"

\* _on_worker_died is called for a greenlet that ended as how
on_worker_died_runs(task, how) == Linked(task) = "link" \/ how = "failed"

\* main() and its greenlets have started
TasksIdle ==
    /\ tasks = [t \in RootChildren \cup EtcdTasks |-> "running"]
    /\ root_state = "iwait"
    /\ main_state = "join"
    /\ proc_exit = None

(***************************************************************************)
(* ipsets: set names and IpsetManager.cleanup                              *)
(***************************************************************************)
\* A set name is the sequence of the pieces it is concatenated from.
FELIX_PFX == <<"felix-">>

IPSET_PREFIX == [v \in {4, 6} |-> FELIX_PFX \o <<IF v = 4 THEN "v4-" ELSE "v6-">>]

IPSET_TMP_PREFIX == [v \in {4, 6} |-> FELIX_PFX \o <<IF v = 4 THEN "tmp-v4-" ELSE "tmp-v6-">>]

tag_to_ipset_name(version, tag, tmp) ==
    IF ~tmp THEN IPSET_PREFIX[version] \o <<tag>> ELSE IPSET_TMP_PREFIX[version] \o <<tag>>

\* str.startswith
startswith(name, prefix) ==
    /\ Len(name) >= Len(prefix)
    /\ SubSeq(name, 1, Len(prefix)) = prefix

\* IpsetActor.owned_ipset_names of the TagIpset of a tag
owned_ipset_names(tag) ==
    {tag_to_ipset_name(ip_type, tag, FALSE), tag_to_ipset_name(ip_type, tag, TRUE)}

\* Sets in the kernel that no v4 TagIpset names: the other family's sets of a
\* tag, the hosts set and its temporary set, and a set of another program.
OtherNames ==
    { tag_to_ipset_name(6, "t1", FALSE), tag_to_ipset_name(6, "t1", TRUE),
      FELIX_PFX \o <<"calico-hosts-4">>, <<"docker-set">> }

\* list_ipset_names: the names of the sets the kernel holds
list_ipset_names(k, others) ==
    {tag_to_ipset_name(ip_type, t, FALSE) : t \in {x \in Tags : k[x]["live"].exists}}
        \cup {tag_to_ipset_name(ip_type, t, TRUE) : t \in {x \in Tags : k[x]["tmp"].exists}}
        \cup others

\* Mutant of ipsets_to_delete: whitelists the sets of objects_by_id only.
ipsets_to_delete_live_only(all_ipsets, live_ipsets, stopping_ipsets) ==
    LET felix_ipsets == {n \in all_ipsets : startswith(n, IPSET_PREFIX[ip_type])
                                             \/ startswith(n, IPSET_TMP_PREFIX[ip_type])}
        whitelist == UNION {owned_ipset_names(t) : t \in live_ipsets}
    IN  felix_ipsets \ whitelist

\* IpsetManager.cleanup: the names it decides to destroy
ipsets_to_delete(all_ipsets, live_ipsets, stopping_ipsets) ==
    LET felix_ipsets == {n \in all_ipsets : startswith(n, IPSET_PREFIX[ip_type])
                                             \/ startswith(n, IPSET_TMP_PREFIX[ip_type])}
        whitelist == UNION {owned_ipset_names(t) : t \in live_ipsets \cup stopping_ipsets}
    IN  felix_ipsets \ whitelist

\* No cleanup has run; the kernel holds no set but the tags' sets.
CleanupIdle ==
    /\ other_sets = {}
    /\ cleanup_calls = EmptyDict

RestIdle == PortsIdle /\ RulesIdle /\ FetcdIdle /\ RecordsIdle /\ TasksIdle /\ CleanupIdle

\* EndpointManager.__init__, no LocalEndpoint created, nothing programmed
EndpointIdle ==
    /\ endpoints_by_id = EmptyDict
    /\ endpoint_id_by_iface_name = EmptyDict
    /\ interfaces = EmptyDict
    /\ ep_ref_count = [i \in LocalIds |-> 0]
    /\ ep_obj = [i \in LocalIds |-> "none"]
    /\ le_run = [i \in LocalIds |-> FALSE]
    /\ le = [i \in LocalIds |-> FreshLocalEndpoint]
    /\ le_queue = [i \in LocalIds |-> <<>>]
    /\ pending_retries = [i \in LocalIds |-> 0]
    /\ le_trace = [i \in LocalIds |-> <<>>]
    /\ chains = [n \in IfaceNames |-> None]
    /\ dispatch_rules = {}
    /\ profile_refs = [p \in ProfileIds |-> 0]

(***************************************************************************)
(* The state in which a part of the agent has not been started             *)
(***************************************************************************)
IpsetIdle ==
    /\ sc_lines = <<>>
    /\ sc_pc = 1
    /\ sc_status = "idle"
    /\ sc_S = {}
    /\ sc_swapped = FALSE

\* IpsetManager.__init__, ReferenceManager.__init__, no TagIpset created yet
TagsFresh ==
    /\ tags_by_prof_id = EmptyDict
    /\ endpoints_by_ep_id = EmptyDict
    /\ ip_owners_by_tag = EmptyDict
    /\ endpoint_ids_by_profile_id = EmptyDict
    /\ dirty_tags = {}
    /\ mgr_in_batch = FALSE
    /\ ref_count = [t \in Tags |-> 0]
    /\ ref_state = [t \in Tags |-> "none"]
    /\ stopping = [t \in Tags |-> FALSE]
    /\ ready_msgs = [t \in Tags |-> FALSE]
    /\ cleanup_msgs = [t \in Tags |-> FALSE]
    /\ a_queue = [t \in Tags |-> <<>>]
    /\ a_members = [t \in Tags |-> {}]
    /\ a_programmed = [t \in Tags |-> None]
    /\ a_stopped = [t \in Tags |-> FALSE]
    /\ a_notified = [t \in Tags |-> FALSE]
    /\ mgr_last = "other"
    /\ a_batch = [t \in Tags |-> "none"]

TagsIdle ==
    /\ TagsFresh
    /\ kern = [t \in Tags |-> [tmp |-> Absent, live |-> Absent]]

(***************************************************************************)
(* SpecIpset: Ipset.replace_members, one script line per step              *)
(***************************************************************************)
\* Sets of any content may be left over from an earlier run or a failed script.
InitIpset ==
    /\ IpsetIdle
    /\ RestIdle
    /\ ks \in [{"live", "tmp"} -> KSetStates]
    /\ sc_pre = ks
    /\ TagsIdle
    /\ EndpointIdle

\* Ipset.replace_members(members) is called: the script is built and handed over.
ScriptStart ==
    /\ sc_status # "running"
    /\ \E S \in SUBSET IPs : \E order \in Orders(S) :
        /\ sc_lines' = exec_and_commit_lines(replace_members_lines("live", "tmp", order))
        /\ sc_S' = S
    /\ sc_pc' = 1
    /\ sc_status' = "running"
    /\ sc_pre' = ks
    /\ sc_swapped' = FALSE
    /\ UNCHANGED <<ks, tagsVars, epVars, restVars>>

\* ipset restore executes the next line.
ScriptStep ==
    /\ sc_status = "running"
    /\ sc_pc <= Len(sc_lines)
    /\ LineCanRun(ks, sc_lines[sc_pc])
    /\ ks' = ExecLine(ks, sc_lines[sc_pc])
    /\ sc_swapped' = (sc_swapped \/ sc_lines[sc_pc].op = "swap")
    /\ sc_pc' = sc_pc + 1
    /\ sc_status' = IF sc_pc = Len(sc_lines) THEN "ok" ELSE "running"
    /\ UNCHANGED <<sc_lines, sc_pre, sc_S, tagsVars, epVars, restVars>>

\* ipset restore fails at the next line (tool error, kernel error, killed):
\* check_call raises FailedSystemCall; the lines already run stay applied.
ScriptFail ==
    /\ sc_status = "running"
    /\ sc_pc <= Len(sc_lines)
    /\ sc_status' = "failed"
    /\ UNCHANGED <<ks, sc_lines, sc_pc, sc_pre, sc_S, sc_swapped, tagsVars, epVars, restVars>>

NextIpset == ScriptStart \/ ScriptStep \/ ScriptFail

SpecIpset == InitIpset /\ [][NextIpset]_vars

\* C3: atomicity of set rewrites. From the moment replace_members(S) starts,
\* whether the script is still running, has failed or has finished, the live
\* set holds the pre-rewrite members until the swap line has run and exactly S
\* afterwards: never a partial union, and a script that fails before the swap
\* leaves the live set's members as they were.
C3_AtomicRewrite ==
    sc_status \in {"running", "failed", "ok"} =>
        ks["live"].members = IF sc_swapped THEN sc_S ELSE sc_pre["live"].members

\* C3 witness: a script that failed half-way through its add lines: the temp
\* set holds a partial member set, the live set still the old members.
C3_Witness ==
    /\ sc_status = "failed"
    /\ ~sc_swapped
    /\ ks["tmp"].members # {}
    /\ ks["tmp"].members # sc_S
    /\ ks["tmp"].members # sc_pre["live"].members
    /\ sc_pre["live"].members # sc_S
    /\ ks["live"].members = sc_pre["live"].members

\* C4: after a successful replace_members(S), from any prior kernel state,
\* the live set exists and holds exactly S, and the temp set is gone.
C4_ReplaceMembersPost ==
    sc_status = "ok" =>
        /\ ks["live"].exists
        /\ ks["live"].members = sc_S
        /\ ~ks["tmp"].exists

\* C4 witness: a successful rewrite that started with the live set absent and
\* a left-over temp set holding members that are not in S.
C4_Witness ==
    /\ sc_status = "ok"
    /\ ~sc_pre["live"].exists
    /\ sc_pre["tmp"].exists
    /\ sc_pre["tmp"].members \ sc_S # {}
    /\ sc_S # {}

(***************************************************************************)
(* SpecTags: IpsetManager, its TagIpset actors and their kernel sets       *)
(***************************************************************************)
InitTags ==
    /\ TagsIdle
    /\ RestIdle
    /\ EndpointIdle
    /\ IpsetIdle
    /\ ks = [n \in {"live", "tmp"} |-> Absent]
    /\ sc_pre = ks

CurIndex ==
    IndexState(tags_by_prof_id, endpoints_by_ep_id, ip_owners_by_tag,
               endpoint_ids_by_profile_id, dirty_tags)

SetIndex(st) ==
    /\ tags_by_prof_id' = st.tags
    /\ endpoints_by_ep_id' = st.eps
    /\ ip_owners_by_tag' = st.owners
    /\ endpoint_ids_by_profile_id' = st.profidx
    /\ dirty_tags' = st.dirty

\* Whether a handler that took the index from st to st2 changed an index entry
\* or marked a tag dirty.
IndexChanged(st, st2) ==
    \/ st2.tags # st.tags
    \/ st2.eps # st.eps
    \/ st2.owners # st.owners
    \/ st2.profidx # st.profidx
    \/ ~(st2.dirty \subseteq st.dirty)

ReplaceMsg(S) == [members |-> S, kind |-> "replace_members"]

UnrefMsg == [members |-> {}, kind |-> "on_unreferenced"]

\* ReferenceManager._is_starting_or_live
is_starting_or_live(tag_id) == ref_state[tag_id] \in {"starting", "live"}

\* IpsetManager.on_tags_update as a message
MgrOnTagsUpdate(profile_id, tags) ==
    LET st2 == on_tags_update(CurIndex, profile_id, tags)
        same == tags = (IF profile_id \in DOMAIN tags_by_prof_id
                        THEN Some(tags_by_prof_id[profile_id]) ELSE None)
    IN  /\ SetIndex(st2)
        /\ mgr_in_batch' = TRUE
        /\ mgr_last' = IF ~same THEN "other"
                       ELSE IF IndexChanged(CurIndex, st2) THEN "dup_changed" ELSE "dup_noop"
        /\ UNCHANGED <<refVars, actorVars, a_batch, ipsetVars, epVars, restVars>>

\* IpsetManager.on_endpoint_update as a message
MgrOnEndpointUpdate(endpoint_id, endpoint) ==
    LET st2 == on_endpoint_update(CurIndex, endpoint_id, endpoint)
        same == endpoint = (IF endpoint_id \in DOMAIN endpoints_by_ep_id
                            THEN Some(endpoints_by_ep_id[endpoint_id]) ELSE None)
    IN  /\ SetIndex(st2)
        /\ mgr_in_batch' = TRUE
        /\ mgr_last' = IF ~same THEN "other"
                       ELSE IF IndexChanged(CurIndex, st2) THEN "dup_changed" ELSE "dup_noop"
        /\ UNCHANGED <<refVars, actorVars, a_batch, ipsetVars, epVars, restVars>>

\* IpsetManager.apply_snapshot as a message
MgrApplySnapshot(snap) ==
    LET st2 == apply_snapshot(CurIndex, snap.tags, snap.eps)
    IN  /\ SetIndex(st2)
        /\ mgr_in_batch' = TRUE
        /\ mgr_last' = IF st2.tags = snap.tags /\ st2.eps = snap.eps
                       THEN "snap_exact" ELSE "snap_differs"
        /\ UNCHANGED <<refVars, actorVars, a_batch, ipsetVars, epVars, restVars>>

\* ReferenceManager._maybe_start, then IpsetManager._on_object_started and
\* _update_active_ipset: the new TagIpset is started and sent its members.
StartObject(tag_id) ==
    LET members == MembersOf(ip_owners_by_tag, tag_id)
    IN  /\ ref_state' = [ref_state EXCEPT ![tag_id] = "starting"]
        /\ a_queue' = [a_queue EXCEPT ![tag_id] = <<ReplaceMsg(members)>>]
        /\ a_members' = [a_members EXCEPT ![tag_id] = {}]
        /\ a_programmed' = [a_programmed EXCEPT ![tag_id] = None]
        /\ a_stopped' = [a_stopped EXCEPT ![tag_id] = FALSE]
        /\ a_notified' = [a_notified EXCEPT ![tag_id] = FALSE]
        /\ a_batch' = [a_batch EXCEPT ![tag_id] = "none"]

\* ReferenceManager.get_and_incref(tag_id)
MgrIncref(tag_id) ==
    /\ ref_count[tag_id] < MaxRef
    /\ ref_count' = [ref_count EXCEPT ![tag_id] = @ + 1]
    /\ IF ref_state[tag_id] = "none" /\ ~stopping[tag_id]
       THEN StartObject(tag_id)
       ELSE /\ ref_state' = [ref_state EXCEPT ![tag_id] =
                                IF @ = "none" THEN "created" ELSE @]
            /\ UNCHANGED <<a_queue, a_members, a_programmed, a_stopped, a_notified,
                           a_batch>>
    /\ mgr_in_batch' = TRUE
    /\ mgr_last' = "other"
    /\ UNCHANGED <<indexVars, stopping, ready_msgs, cleanup_msgs, kern, ipsetVars, epVars, restVars>>

\* ReferenceManager.decref(tag_id)
MgrDecref(tag_id) ==
    /\ ref_count[tag_id] > 0
    /\ ref_count' = [ref_count EXCEPT ![tag_id] = @ - 1]
    /\ IF ref_count[tag_id] > 1
       THEN UNCHANGED <<ref_state, stopping, ready_msgs, a_queue>>
       ELSE IF ref_state[tag_id] = "created"
       THEN /\ ref_state' = [ref_state EXCEPT ![tag_id] = "none"]
            /\ UNCHANGED <<stopping, ready_msgs, a_queue>>
       ELSE /\ Len(a_queue[tag_id]) < MaxQueue
            /\ ref_state' = [ref_state EXCEPT ![tag_id] = "none"]
            /\ stopping' = [stopping EXCEPT ![tag_id] = TRUE]
            /\ a_queue' = [a_queue EXCEPT ![tag_id] = Append(@, UnrefMsg)]
            /\ ready_msgs' = [ready_msgs EXCEPT ![tag_id] = FALSE]
    /\ mgr_in_batch' = TRUE
    /\ mgr_last' = "other"
    /\ UNCHANGED <<indexVars, cleanup_msgs, a_members, a_programmed, a_stopped,
                   a_notified, kern, a_batch, ipsetVars, epVars, restVars>>

\* ReferenceManager.on_object_startup_complete(tag_id, obj). A message whose obj
\* is no longer objects_by_id[tag_id] is ignored by the handler: such messages
\* are dropped from ready_msgs when the object is replaced (MgrDecref) and
\* never entered by an object that is already stopping (ActorBatch).
MgrStartupComplete(tag_id) ==
    /\ ready_msgs[tag_id]
    /\ ready_msgs' = [ready_msgs EXCEPT ![tag_id] = FALSE]
    /\ ref_state' = [ref_state EXCEPT ![tag_id] = IF @ = "starting" THEN "live" ELSE @]
    /\ mgr_in_batch' = TRUE
    /\ mgr_last' = "other"
    /\ UNCHANGED <<indexVars, ref_count, stopping, cleanup_msgs, actorVars, a_batch,
                   ipsetVars, epVars, restVars>>

\* ReferenceManager.on_object_cleanup_complete(tag_id, obj)
MgrCleanupComplete(tag_id) ==
    /\ cleanup_msgs[tag_id]
    /\ cleanup_msgs' = [cleanup_msgs EXCEPT ![tag_id] = FALSE]
    /\ stopping' = [stopping EXCEPT ![tag_id] = FALSE]
    /\ IF ref_state[tag_id] = "created"
       THEN StartObject(tag_id)
       ELSE UNCHANGED <<ref_state, a_queue, a_members, a_programmed, a_stopped,
                        a_notified, a_batch>>
    /\ mgr_in_batch' = TRUE
    /\ mgr_last' = "other"
    /\ UNCHANGED <<indexVars, ref_count, ready_msgs, kern, ipsetVars, epVars, restVars>>

\* Mutant of _update_dirty_active_ipsets: sends to every dirty tag, active or not.
DirtyToSend_all == dirty_tags

\* Mutant of _update_dirty_active_ipsets: clears the dirty tags without sending.
DirtyToSend_none == {}

\* IpsetManager._update_dirty_active_ipsets: the tags it sends members to
DirtyToSend == {t \in dirty_tags : is_starting_or_live(t)}

\* IpsetManager._finish_msg_batch
MgrFinishBatch ==
    /\ mgr_in_batch
    /\ \A t \in DirtyToSend : Len(a_queue[t]) < MaxQueue
    /\ a_queue' = [t \in Tags |->
                    IF t \in DirtyToSend
                    THEN Append(a_queue[t], ReplaceMsg(MembersOf(ip_owners_by_tag, t)))
                    ELSE a_queue[t]]
    /\ dirty_tags' = {}
    /\ mgr_in_batch' = FALSE
    /\ UNCHANGED <<tags_by_prof_id, endpoints_by_ep_id, ip_owners_by_tag,
                   endpoint_ids_by_profile_id, refVars, a_members, a_programmed,
                   a_stopped, a_notified, kern, mgr_last, a_batch, ipsetVars, epVars, restVars>>

\* The members after the replace_members messages of a batch (IpsetActor.replace_members)
BatchMembers(members, batch) ==
    LET reps == {i \in 1..Len(batch) : batch[i].kind = "replace_members"}
    IN  IF reps = {} THEN members
        ELSE batch[CHOOSE i \in reps : \A j \in reps : j <= i].members

\* The line at which a failing rewrite is taken to stop, as the number of
\* lines run before it: the flush of the temporary set (both creates have run).
\* SpecIpset covers a failure at every line.
FailPoints(lines) ==
    {i - 1 : i \in {j \in 1..Len(lines) : lines[j].op = "flush"}}

\* Mutant of NeedSync: rewrites the kernel set at the end of every batch.
NeedSync_always(stopped, members, programmed) == ~stopped

\* Mutant of NeedSync: a stopped actor still rewrites its kernel set.
NeedSync_revive(stopped, members, programmed) == Some(members) # programmed

\* IpsetActor._finish_msg_batch: its condition for calling _sync_to_ipset
NeedSync(stopped, members, programmed) == ~stopped /\ Some(members) # programmed

\* Mutant of sync_to_ipset: programmed_members is set before the rewrite runs.
sync_to_ipset_eager(programmed, members, succeeded) == Some(members)

\* IpsetActor._sync_to_ipset: programmed_members after the call; the copy of
\* members is taken only when Ipset.replace_members returned.
sync_to_ipset(programmed, members, succeeded) ==
    IF succeeded THEN Some(members) ELSE programmed

\* Mutant of on_unreferenced: cleanup_complete is signalled only when the
\* kernel sets were destroyed.
on_unreferenced_signals_if_destroyed(unref, destroyed) == unref /\ destroyed

\* TagIpset.on_unreferenced: _notify_cleanup_complete sits in the finally
\* clause around Ipset.delete, so it is called whatever the delete did.
on_unreferenced_signals(unref, destroyed) == unref

\* Mutant of notify_ready: the notification is sent although the rewrite raised.
notify_ready_despite_failure(notified_ready, raised) == ~notified_ready

\* TagIpset._finish_msg_batch: _notify_ready is called if the base class's
\* _finish_msg_batch returned without raising and notified_ready is not set.
notify_ready(notified_ready, raised) == ~notified_ready /\ ~raised

\* One batch of a TagIpset: the actor drains the k messages pending in its
\* mailbox, then runs TagIpset._finish_msg_batch. The rewrite either runs all
\* its lines or fails after the first n of them.
ActorBatch(tag_id) ==
    \E k \in {Len(a_queue[tag_id])} \ {0} :
      LET batch == SubSeq(a_queue[tag_id], 1, k)
          unref == \E i \in 1..k : batch[i].kind = "on_unreferenced"
          members == BatchMembers(a_members[tag_id], batch)
          stopped == a_stopped[tag_id] \/ unref
          sync == NeedSync(stopped, members, a_programmed[tag_id])
          current == ~stopping[tag_id]
      IN
      /\ a_queue' = [a_queue EXCEPT ![tag_id] = SubSeq(@, k + 1, Len(@))]
      /\ a_members' = [a_members EXCEPT ![tag_id] = members]
      /\ a_stopped' = [a_stopped EXCEPT ![tag_id] = stopped]
      /\ a_batch' = [a_batch EXCEPT ![tag_id] =
            IF unref \/ a_batch[tag_id] = "none" \/ members # a_members[tag_id] THEN "other"
            ELSE IF a_programmed[tag_id] # Some(a_members[tag_id])
            THEN (IF sync THEN "same_retry" ELSE "other")
            ELSE (IF sync THEN "same_rewrite" ELSE "same_skip")]
      /\ \E destroyed \in BOOLEAN :
           LET order == CHOOSE o \in Orders(members) : TRUE \* TagIpset.on_unreferenced: Ipset.delete, errors ignored
               k1 == IF unref
                     THEN [tmp |-> Absent,
                           live |-> IF destroyed THEN Absent ELSE kern[tag_id]["live"]]
                     ELSE kern[tag_id]
               lines == exec_and_commit_lines(replace_members_lines("live", "tmp", order))
           IN
           /\ unref \/ destroyed
           /\ cleanup_msgs' = [cleanup_msgs EXCEPT ![tag_id] =
                                  @ \/ on_unreferenced_signals(unref, destroyed)]
           /\ IF ~sync
              THEN /\ kern' = [kern EXCEPT ![tag_id] = k1]
                   /\ a_programmed' = a_programmed
                   /\ a_notified' = [a_notified EXCEPT ![tag_id] =
                                        @ \/ notify_ready(@, FALSE)]
                   /\ ready_msgs' = [ready_msgs EXCEPT ![tag_id] =
                                        @ \/ (notify_ready(a_notified[tag_id], FALSE) /\ current)]
              ELSE \E n \in FailPoints(lines) \cup {Len(lines)} :
                   /\ CanRunLines(k1, lines, n)
                   /\ kern' = [kern EXCEPT ![tag_id] = RunLines(k1, lines, n)]
                   /\ a_programmed' = [a_programmed EXCEPT ![tag_id] =
                                        sync_to_ipset(@, members, n = Len(lines))]
                   /\ a_notified' = [a_notified EXCEPT ![tag_id] =
                                        @ \/ notify_ready(@, n # Len(lines))]
                   /\ ready_msgs' = [ready_msgs EXCEPT ![tag_id] =
                                        @ \/ (notify_ready(a_notified[tag_id], n # Len(lines))
                                               /\ current)]
      /\ UNCHANGED <<indexVars, mgr_in_batch, ref_count, ref_state, stopping,
                     mgr_last, ipsetVars, epVars, restVars>>

NextTags ==
    \/ \E u \in TagUpdates : MgrOnTagsUpdate(u[1], u[2])
    \/ \E u \in EndpointUpdates : MgrOnEndpointUpdate(u[1], u[2])
    \/ \E snap \in SnapshotUpdates : MgrApplySnapshot(snap)
    \/ \E t \in ReferencedTags : MgrIncref(t)
    \/ \E t \in ReferencedTags : MgrDecref(t)
    \/ \E t \in ReferencedTags : MgrStartupComplete(t)
    \/ \E t \in ReferencedTags : MgrCleanupComplete(t)
    \/ MgrFinishBatch
    \/ \E t \in ReferencedTags : ActorBatch(t)

SpecTags == InitTags /\ [][NextTags]_vars

\* The union, over the endpoints that have a profile carrying tag_id, of their
\* addresses of the manager's IP family.
TagUnion(tag_id) ==
    UNION { extract_ips(Some(endpoints_by_ep_id[e])) :
              e \in { x \in DOMAIN endpoints_by_ep_id :
                        \E p \in endpoints_by_ep_id[x].profile_ids :
                            tag_id \in Get(tags_by_prof_id, p, {}) } }

\* The kernel address set of a tag holds exactly S.
KernelSetIs(tag_id, S) ==
    /\ kern[tag_id]["live"].exists
    /\ kern[tag_id]["live"].members = S

C5_SecondAlwaysShortCircuits ==
    /\ mgr_last # "dup_changed"
    /\ \A t \in Tags : a_batch[t] \notin {"same_rewrite", "same_retry"}

\* C5, amended: a repeated on_tags_update / on_endpoint_update changes no index
\* entry and marks no tag dirty; a batch that only repeats replace_members(S)
\* runs no kernel rewrite provided the earlier rewrite succeeded
\* (programmed_members = members). After a failed rewrite the repeated delivery
\* re-attempts it.
C5_Idempotence ==
    /\ mgr_last # "dup_changed"
    /\ \A t \in Tags : a_batch[t] # "same_rewrite"

\* C5 witness: the manager has just handled a repeated update without effect
\* and the tag's actor has just short-circuited a repeated replace_members of
\* a non-empty set.
C5_Witness ==
    /\ mgr_last = "dup_noop"
    /\ a_batch["t1"] = "same_skip"
    /\ a_members["t1"] # {}
    /\ KernelSetIs("t1", a_members["t1"])

(***************************************************************************)
(* SpecIndex: the IpsetManager's index alone, no tag referenced            *)
(***************************************************************************)
NextIndex ==
    \/ \E p \in Profiles : \E tv \in {None} \cup {Some(v) : v \in TagValues} :
          MgrOnTagsUpdate(p, tv)
    \/ \E e \in EndpointIds : \E ev \in {None} \cup {Some(v) : v \in EndpointValues} :
          MgrOnEndpointUpdate(e, ev)
    \/ \E snap \in Snapshots : MgrApplySnapshot(snap)
    \/ MgrFinishBatch

SpecIndex == InitTags /\ [][NextIndex]_vars

\* C2: snapshot equivalence. After any sequence of updates, applying the
\* manager's (tags_by_prof_id, endpoints_by_ep_id) as a snapshot to a fresh
\* manager gives the same tag-to-IP index, hence the same member set for every
\* tag as the replay; and apply_snapshot(S) in any reachable state leaves
\* tags_by_prof_id and endpoints_by_ep_id equal to S.
C2_SnapshotEquivalence ==
    LET fresh == apply_snapshot(FreshIndex, tags_by_prof_id, endpoints_by_ep_id)
    IN  /\ fresh.tags = tags_by_prof_id
        /\ fresh.eps = endpoints_by_ep_id
        /\ fresh.owners = ip_owners_by_tag
        /\ \A t \in Tags : MembersOf(fresh.owners, t) = MembersOf(ip_owners_by_tag, t)
        /\ mgr_last # "snap_differs"

\* C2 witness: a snapshot has just been applied and left exactly its profile
\* and its endpoint in the maps, with the endpoint's address under tag t1.
C2_Witness ==
    /\ mgr_last = "snap_exact"
    /\ DOMAIN tags_by_prof_id = {"p1"}
    /\ DOMAIN endpoints_by_ep_id = {"e1"}
    /\ MembersOf(ip_owners_by_tag, "t1") = {"ip1"}

(***************************************************************************)
(* SpecEndpoint: EndpointManager, its LocalEndpoint actors, the dataplane  *)
(***************************************************************************)
InitEndpoint ==
    /\ EndpointIdle
    /\ RestIdle
    /\ TagsIdle
    /\ IpsetIdle
    /\ ks = [n \in {"live", "tmp"} |-> Absent]
    /\ sc_pre = ks

\* The manager's state and what its handlers touch of its LocalEndpoints.
CurManager ==
    [eps |-> endpoints_by_id, ep |-> le, retries |-> pending_retries, trace |-> le_trace,
     count |-> ep_ref_count, obj |-> ep_obj, run |-> le_run, queue |-> le_queue]

SetManager(m) ==
    /\ endpoints_by_id' = m.eps
    /\ ep_ref_count' = m.count
    /\ ep_obj' = m.obj
    /\ le_run' = m.run
    /\ le' = m.ep
    /\ le_queue' = m.queue
    /\ pending_retries' = m.retries
    /\ le_trace' = m.trace

\* ReferenceManager._is_active
is_active(m, endpoint_id) == m.obj[endpoint_id] = "live"

\* A new LocalEndpoint is created and started; EndpointManager._on_object_activated
\* sends it the endpoint and, if there is one, the cached interface state.
on_object_activated(m, ifaces, object_id) ==
    LET ep == IF object_id \in DOMAIN m.eps THEN Some(m.eps[object_id]) ELSE None
        iface_name == ep[1].name
        msgs == <<EndpointMsg(ep)>> \o
                (IF ep = None THEN <<>>
                 ELSE <<IfaceMsg(IF iface_name \in DOMAIN ifaces
                                 THEN Some(ifaces[iface_name]) ELSE None)>>)
    IN  [m EXCEPT !.obj[object_id] = "live", !.run[object_id] = TRUE,
                  !.ep[object_id] = FreshLocalEndpoint, !.queue[object_id] = msgs,
                  !.retries[object_id] = 0, !.trace[object_id] = <<>>]

\* ReferenceManager.get_and_incref: a new object waits for the cleanup of an
\* instance of the same id that is still stopping.
get_and_incref(m, ifaces, object_id) ==
    LET m1 == [m EXCEPT !.count[object_id] = @ + 1]
    IN  IF m.obj[object_id] # "none" THEN m1
        ELSE IF m.run[object_id] THEN [m1 EXCEPT !.obj[object_id] = "pending"]
        ELSE on_object_activated(m1, ifaces, object_id)

\* ReferenceManager.decref: at zero the object is sent on_unreferenced.
decref(m, object_id) ==
    IF m.count[object_id] > 1 THEN [m EXCEPT !.count[object_id] = @ - 1]
    ELSE [m EXCEPT !.count[object_id] = 0, !.obj[object_id] = "none",
                   !.queue[object_id] = Append(@, UnreferencedMsg)]

\* EndpointManager.on_endpoint_update(endpoint_id, endpoint)
em_on_endpoint_update(m, ifaces, endpoint_id, endpoint) ==
    LET m1 == IF is_active(m, endpoint_id)
              THEN [m EXCEPT !.queue[endpoint_id] = Append(@, EndpointMsg(endpoint))]
              ELSE m
        m2 == IF endpoint = None
              THEN LET m2a == [m1 EXCEPT !.eps = Del(@, endpoint_id)]
                   IN  IF is_active(m2a, endpoint_id) THEN decref(m2a, endpoint_id) ELSE m2a
              ELSE [m1 EXCEPT !.eps = Put(@, endpoint_id, endpoint[1])]
    IN  IF endpoint # None /\ endpoint[1].host = OUR_HOSTNAME /\ ~is_active(m2, endpoint_id)
        THEN get_and_incref(m2, ifaces, endpoint_id)
        ELSE m2

\* for endpoint_id in ids: self.on_endpoint_update(endpoint_id, snapshot.get(endpoint_id))
RECURSIVE em_update_each(_, _, _, _)
em_update_each(m, ifaces, snapshot, ids) ==
    IF ids = {} THEN m
    ELSE LET i == CHOOSE x \in ids : TRUE
             v == IF i \in DOMAIN snapshot THEN Some(snapshot[i]) ELSE None
         IN  em_update_each(em_on_endpoint_update(m, ifaces, i, v), ifaces, snapshot, ids \ {i})

\* EndpointManager.apply_snapshot(endpoints_by_id)
em_apply_snapshot(m, ifaces, snapshot) ==
    LET missing_endpoints == (DOMAIN m.eps) \ (DOMAIN snapshot)
        m1 == em_update_each(m, ifaces, snapshot, DOMAIN snapshot)
    IN  em_update_each(m1, ifaces, snapshot, missing_endpoints)

\* The bounds on the counters and mailboxes
WithinBounds(m) ==
    \A i \in LocalIds : m.count[i] <= MaxEpRef /\ Len(m.queue[i]) <= MaxEpQueue

\* EndpointManager.on_endpoint_update as a message
EmOnEndpointUpdate(endpoint_id, endpoint) ==
    LET m == em_on_endpoint_update(CurManager, interfaces, endpoint_id, endpoint)
    IN  /\ WithinBounds(m)
        /\ SetManager(m)
        /\ UNCHANGED <<endpoint_id_by_iface_name, interfaces, dpVars, ipsetVars, tagsVars, restVars>>

\* EndpointManager.apply_snapshot as a message
EmApplySnapshot(snapshot) ==
    LET m == em_apply_snapshot(CurManager, interfaces, snapshot)
    IN  /\ WithinBounds(m)
        /\ SetManager(m)
        /\ UNCHANGED <<endpoint_id_by_iface_name, interfaces, dpVars, ipsetVars, tagsVars, restVars>>

\* EndpointManager.on_interface_update(name, iface_state)
EmOnInterfaceUpdate(name, iface_state) ==
    LET endpoint_id == IF name \in DOMAIN endpoint_id_by_iface_name
                       THEN Some(endpoint_id_by_iface_name[name]) ELSE None
        forward == endpoint_id # None /\ is_active(CurManager, endpoint_id[1])
    IN  /\ interfaces' = IF iface_state # None THEN Put(interfaces, name, iface_state[1])
                         ELSE Del(interfaces, name)
        /\ IF forward
           THEN /\ Len(le_queue[endpoint_id[1]]) < MaxEpQueue
                /\ le_queue' = [le_queue EXCEPT ![endpoint_id[1]] =
                                    Append(@, IfaceMsg(iface_state))]
           ELSE UNCHANGED le_queue
        /\ UNCHANGED <<endpoints_by_id, endpoint_id_by_iface_name, ep_ref_count, ep_obj,
                       le_run, le, pending_retries, le_trace, dpVars, ipsetVars, tagsVars, restVars>>

CurWorld(endpoint_id) ==
    World(le[endpoint_id], chains, dispatch_rules, profile_refs, pending_retries[endpoint_id])

\* What a LocalEndpoint handler leaves behind.
SetWorld(endpoint_id, w) ==
    /\ \A p \in ProfileIds : w.refs[p] <= MaxProfileRefs
    /\ w.retries <= MaxRetries
    /\ le' = [le EXCEPT ![endpoint_id] = w.ep]
    /\ chains' = w.chains
    /\ dispatch_rules' = w.dispatch
    /\ profile_refs' = w.refs
    /\ pending_retries' = [pending_retries EXCEPT ![endpoint_id] = w.retries]
    /\ le_trace' = [le_trace EXCEPT ![endpoint_id] = w.trace]

\* The dataplane failures a handler may meet
Failures == {"none", "chains", "iface"}

\* A LocalEndpoint handles the message at the head of its mailbox.
LeHandle(endpoint_id) ==
    /\ le_run[endpoint_id]
    /\ le_queue[endpoint_id] # <<>>
    /\ LET msg == Head(le_queue[endpoint_id])
           rest == Tail(le_queue[endpoint_id])
       IN  IF msg.kind = "on_unreferenced"
           THEN \* RefCountedActor.on_unreferenced: cleanup complete; the manager
                \* forgets the instance and starts the one that waited for it.
                LET m == [CurManager EXCEPT !.run[endpoint_id] = FALSE,
                                            !.ep[endpoint_id] = FreshLocalEndpoint,
                                            !.queue[endpoint_id] = <<>>,
                                            !.retries[endpoint_id] = 0,
                                            !.trace[endpoint_id] = <<>>]
                IN  /\ SetManager(IF ep_obj[endpoint_id] = "pending"
                                  THEN on_object_activated(m, interfaces, endpoint_id)
                                  ELSE m)
                    /\ UNCHANGED <<endpoint_id_by_iface_name, interfaces, dpVars>>
           ELSE \E fail \in Failures, dispatch_raises \in BOOLEAN :
                /\ SetWorld(endpoint_id,
                            IF msg.kind = "on_endpoint_update"
                            THEN le_on_endpoint_update(CurWorld(endpoint_id), msg.data,
                                                       fail, dispatch_raises)
                            ELSE le_on_interface_update(CurWorld(endpoint_id), msg.data,
                                                        fail, dispatch_raises))
                /\ le_queue' = [le_queue EXCEPT ![endpoint_id] = rest]
                /\ UNCHANGED <<emVars, le_run>>
    /\ UNCHANGED <<ipsetVars, tagsVars, restVars>>

\* A scheduled retry fires: _maybe_update(False)
LeRetry(endpoint_id) ==
    /\ le_run[endpoint_id]
    /\ pending_retries[endpoint_id] > 0
    /\ \E fail \in Failures, dispatch_raises \in BOOLEAN :
         LET w == CurWorld(endpoint_id)
         IN  SetWorld(endpoint_id,
                      maybe_update([w EXCEPT !.retries = @ - 1], FALSE, fail, dispatch_raises))
    /\ UNCHANGED <<emVars, le_run, le_queue, ipsetVars, tagsVars, restVars>>

NextEndpoint ==
    \/ \E i \in LocalIds : \E e \in {None} \cup {Some(v) : v \in EndpointData(i)} :
          EmOnEndpointUpdate(i, e)
    \/ \E snapshot \in {EmptyDict} \cup
                       UNION {[{i} -> EndpointData(i)] : i \in LocalIds} :
          EmApplySnapshot(snapshot)
    \/ \E n \in IfaceNames : \E s \in {None} \cup {Some(v) : v \in IfaceStates(n)} :
          EmOnInterfaceUpdate(n, s)
    \/ \E i \in LocalIds : LeHandle(i)
    \/ \E i \in LocalIds : LeRetry(i)

SpecEndpoint == InitEndpoint /\ [][NextEndpoint]_vars

(***************************************************************************)
(* SpecLocalEndpoint: one LocalEndpoint and the messages it may be sent    *)
(***************************************************************************)
\* A LocalEndpoint the manager has just created and started (its first
\* reference); nothing has been delivered to it yet.
InitLocalEndpoint ==
    /\ endpoints_by_id = EmptyDict
    /\ endpoint_id_by_iface_name = EmptyDict
    /\ interfaces = EmptyDict
    /\ ep_ref_count = [i \in LocalIds |-> 1]
    /\ ep_obj = [i \in LocalIds |-> "live"]
    /\ le_run = [i \in LocalIds |-> TRUE]
    /\ le = [i \in LocalIds |-> FreshLocalEndpoint]
    /\ le_queue = [i \in LocalIds |-> <<>>]
    /\ pending_retries = [i \in LocalIds |-> 0]
    /\ le_trace = [i \in LocalIds |-> <<>>]
    /\ chains = [n \in IfaceNames |-> None]
    /\ dispatch_rules = {}
    /\ profile_refs = [p \in ProfileIds |-> 0]
    /\ TagsIdle
    /\ RestIdle
    /\ IpsetIdle
    /\ ks = [n \in {"live", "tmp"} |-> Absent]
    /\ sc_pre = ks

\* LocalEndpoint.on_endpoint_update(endpoint) runs to completion.
LeOnEndpointUpdate(endpoint_id, endpoint) ==
    /\ le_run[endpoint_id]
    /\ \E fail \in Failures, dispatch_raises \in BOOLEAN :
         SetWorld(endpoint_id,
                  le_on_endpoint_update(CurWorld(endpoint_id), endpoint, fail, dispatch_raises))
    /\ UNCHANGED <<emVars, le_run, le_queue, ipsetVars, tagsVars, restVars>>

\* LocalEndpoint.on_interface_update(iface_state) runs to completion.
LeOnInterfaceUpdate(endpoint_id, iface_state) ==
    /\ le_run[endpoint_id]
    /\ \E fail \in Failures, dispatch_raises \in BOOLEAN :
         SetWorld(endpoint_id,
                  le_on_interface_update(CurWorld(endpoint_id), iface_state,
                                         fail, dispatch_raises))
    /\ UNCHANGED <<emVars, le_run, le_queue, ipsetVars, tagsVars, restVars>>

NextLocalEndpoint ==
    \/ \E i \in LocalIds : \E e \in {None} \cup {Some(v) : v \in EndpointData(i)} :
          LeOnEndpointUpdate(i, e)
    \/ \E i \in LocalIds : \E n \in IfaceNames :
          \E s \in {None} \cup {Some(v) : v \in IfaceStates(n)} :
             LeOnInterfaceUpdate(i, s)
    \/ \E i \in LocalIds : LeRetry(i)

SpecLocalEndpoint == InitLocalEndpoint /\ [][NextLocalEndpoint]_vars

\* The interface state the manager has cached for a name, None if absent
CachedIface(name) == IF name \in DOMAIN interfaces THEN Some(interfaces[name]) ELSE None

\* Every message sent to a LocalEndpoint has been handled and no retry is pending.
Quiescent == \A i \in LocalIds : le_queue[i] = <<>> /\ pending_retries[i] = 0

\* The conditions of P6 on the latest data of an endpoint id
ShouldBeRouted(endpoint_id) ==
    /\ endpoint_id \in DOMAIN endpoints_by_id
    /\ endpoints_by_id[endpoint_id].host = OUR_HOSTNAME
    /\ endpoints_by_id[endpoint_id].state = "active"
    /\ CachedIface(endpoints_by_id[endpoint_id].name) # None
    /\ CachedIface(endpoints_by_id[endpoint_id].name)[1].up
    /\ le_run[endpoint_id]
    /\ le[endpoint_id].profile # None

\* C6: dispatch ordering. Whenever all queued updates have been processed, an
\* interface has a dispatch rule and to/from chains exactly when its endpoint
\* is local, active, its interface is reported present and up and it holds a
\* profile; otherwise neither the rule nor the chains exist.
C6_DispatchOrdering ==
    Quiescent =>
        \A n \in IfaceNames :
            LET should == \E i \in LocalIds :
                              /\ ShouldBeRouted(i)
                              /\ endpoints_by_id[i].name = n
            IN  IF should THEN n \in dispatch_rules /\ chains[n] # None
                ELSE n \notin dispatch_rules /\ chains[n] = None

\* C7: refcount soundness for profiles. Whenever a LocalEndpoint calls
\* profile_mgr.decref(p), the to/from chains programmed for the endpoint at that
\* moment hold no goto to p's chains.
C7_NoGotoAtDecref ==
    \A i \in LocalIds : \A k \in DOMAIN le_trace[i] :
        le_trace[i][k][1] = "decref" => le_trace[i][k][3] # Some(le_trace[i][k][2])

\* C8: profile reference counts equal the holders. Between handlers, for every
\* profile p, the increfs minus the decrefs issued by LocalEndpoints for p equal
\* the number of LocalEndpoints whose current endpoint data names p.
C8_RefcountsEqualHolders ==
    \A p \in ProfileIds :
        profile_refs[p] =
            Cardinality({ i \in LocalIds :
                            /\ le_run[i]
                            /\ le[i].endpoint # None
                            /\ le[i].endpoint[1].profile_id = p })

\* C9: when an update changes the profile id, get_and_incref of the new profile
\* comes before decref of the old one, and the decref comes after _maybe_update
\* has run for that update.
C9_IncrefBeforeDecref ==
    \A i \in LocalIds :
        LET T == le_trace[i]
        IN  \A d \in DOMAIN T :
                T[d][1] = "decref" =>
                    /\ \E m \in 1..(d - 1) : T[m][1] = "_maybe_update"
                    /\ \A k \in DOMAIN T : T[k][1] = "get_and_incref" => k < d

\* C9 witness: a handler that acquired p2, ran _maybe_update and then released p1.
C9_Witness ==
    \E i \in LocalIds :
        LET T == le_trace[i]
        IN  \E a, m, d \in DOMAIN T :
                /\ a < m /\ m < d
                /\ T[a] = <<"get_and_incref", "p2">>
                /\ T[m][1] = "_maybe_update"
                /\ T[d][1] = "decref" /\ T[d][2] = "p1"

\* C10: interface events reach the LocalEndpoint. For a local endpoint with an
\* active LocalEndpoint, once the LocalEndpoint has handled everything sent to
\* it, its iface_state is the latest interface event for the endpoint's name.
C10_InterfaceEventsForwarded ==
    \A i \in LocalIds :
        (/\ ep_obj[i] = "live"
         /\ le_queue[i] = <<>>
         /\ i \in DOMAIN endpoints_by_id
         /\ endpoints_by_id[i].host = OUR_HOSTNAME)
        => le[i].iface_state = CachedIface(endpoints_by_id[i].name)

\* The calls a LocalEndpoint makes to take its dataplane state down
TeardownCalls == {"remove_dispatch_rule", "delete_chain", "_deconfigure_interface"}

\* C11: when a LocalEndpoint goes from ready to not-ready, remove_dispatch_rule
\* has returned (the rule is gone) before any delete_chain is issued, delete_chain
\* is issued before _deconfigure_interface, and the old profile is decref'd only
\* after all of these.
C11_TeardownOrder ==
    \A i \in LocalIds :
        LET T == le_trace[i]
        IN  \A k \in DOMAIN T :
                /\ T[k][1] = "delete_chain" =>
                       /\ ~T[k][2]
                       /\ \E r \in 1..(k - 1) : T[r][1] = "remove_dispatch_rule"
                /\ T[k][1] = "_deconfigure_interface" =>
                       \E c \in 1..(k - 1) : T[c][1] = "delete_chain"
                /\ T[k][1] = "decref" =>
                       \A j \in DOMAIN T : T[j][1] \in TeardownCalls => j < k

\* C11 witness: a handler that removed the rule, deleted the chains, tore the
\* interface configuration down and then released its profile.
C11_Witness ==
    \E i \in LocalIds :
        LET T == le_trace[i]
        IN  \E r, c, f, d \in DOMAIN T :
                /\ r < c /\ c < f /\ f < d
                /\ T[r][1] = "remove_dispatch_rule"
                /\ T[c][1] = "delete_chain"
                /\ T[f][1] = "_deconfigure_interface"
                /\ T[d][1] = "decref"

\* C12: every sub-step of the not-ready teardown is best-effort. A handler that
\* started the teardown (called remove_dispatch_rule) has also attempted
\* delete_chain and _deconfigure_interface, whatever failed.
C12_TeardownBestEffort ==
    \A i \in LocalIds :
        LET T == le_trace[i]
        IN  (\E r \in DOMAIN T : T[r][1] = "remove_dispatch_rule") =>
                /\ \E c \in DOMAIN T : T[c][1] = "delete_chain"
                /\ \E f \in DOMAIN T : T[f][1] = "_deconfigure_interface"

(***************************************************************************)
(* SpecLocalEndpointFair: a scheduled retry eventually runs against a      *)
(* dataplane that has stopped failing                                      *)
(***************************************************************************)
\* The retry scheduled by gevent.spawn_later(5, self._maybe_update, False)
\* fires and no dataplane call fails.
LeRetryOk(endpoint_id) ==
    /\ le_run[endpoint_id]
    /\ pending_retries[endpoint_id] > 0
    /\ LET w == CurWorld(endpoint_id)
       IN  SetWorld(endpoint_id,
                    maybe_update([w EXCEPT !.retries = @ - 1], FALSE, "none", FALSE))
    /\ UNCHANGED <<emVars, le_run, le_queue, ipsetVars, tagsVars, restVars>>

SpecLocalEndpointFair ==
    SpecLocalEndpoint /\ \A i \in LocalIds : WF_vars(LeRetryOk(i))

\* The handler that last ran in LocalEndpoint i made the call op.
Called(T, op) == \E k \in DOMAIN T : T[k][1] = op

\* The interface of LocalEndpoint i has its dispatch rule and its chains.
Programmed(endpoint_id) ==
    /\ le[endpoint_id].iface_name # None
    /\ le[endpoint_id].iface_name[1] \in dispatch_rules
    /\ chains[le[endpoint_id].iface_name[1]] # None

\* C13: a system-call error while programming a ready endpoint marks it failed
\* and schedules a retry; a retry or update that finds a failed endpoint ready
\* programs again although readiness did not change; an endpoint that became
\* not ready has its flag cleared and a pending retry then changes nothing;
\* once a retry runs against a dataplane that no longer fails, the endpoint is
\* not failed and, if still ready, programmed.
C13_RetryAfterFailure ==
    /\ [](\A i \in LocalIds :
            le[i].failed => pending_retries[i] > 0 /\ ready(le[i]))
    /\ [][\A i \in LocalIds :
            /\ (le[i].failed /\ ready(le'[i])) => Called(le_trace'[i], "_update_chains")
            /\ (le[i].failed /\ ~ready(le'[i])) => ~le'[i].failed
            /\ (/\ ~le[i].failed /\ ~ready(le[i])
                /\ pending_retries'[i] < pending_retries[i])
               => UNCHANGED <<le, chains, dispatch_rules, profile_refs>>]_vars
    /\ \A i \in LocalIds :
            le[i].failed ~> (~le[i].failed /\ (ready(le[i]) => Programmed(i)))

\* C13 witness: programming has just failed; the endpoint is marked failed, is
\* still ready and a retry is scheduled.
C13_Witness ==
    \E i \in LocalIds :
        /\ le[i].failed
        /\ ready(le[i])
        /\ pending_retries[i] > 0
        /\ Called(le_trace[i], "spawn_later")

\* The most recent update for an endpoint id carried data for this host.
LatestIsLocal(endpoint_id) ==
    /\ endpoint_id \in DOMAIN endpoints_by_id
    /\ endpoints_by_id[endpoint_id].host = OUR_HOSTNAME

\* C14: after every EndpointManager.on_endpoint_update the manager holds a
\* LocalEndpoint reference for an endpoint id exactly when the most recent
\* update for it carried data for this host, and it holds at most one.
C14_ReferenceIffLocal ==
    \A i \in LocalIds :
        /\ ep_ref_count[i] > 0 <=> LatestIsLocal(i)
        /\ ep_ref_count[i] <= 1

(***************************************************************************)
(* SpecPorts: _split_port_lists on port lists that grow entry by entry     *)
(***************************************************************************)
InitPorts ==
    /\ ports \in {PrefixPorts(0), PrefixPorts(LongPrefix)}
    /\ port_chunks = split_port_lists(ports)
    /\ RulesIdle
    /\ FetcdIdle
    /\ RecordsIdle
    /\ TasksIdle
    /\ CleanupIdle
    /\ IpsetIdle
    /\ ks = [n \in {"live", "tmp"} |-> Absent]
    /\ sc_pre = ks
    /\ TagsIdle
    /\ EndpointIdle

\* The rule's port list has one more entry; it is split again.
AddPort(p) ==
    /\ \E n \in {0, LongPrefix} : Len(ports) < n + MaxExtraPorts /\ Len(ports) >= n
    /\ ports' = Append(ports, p)
    /\ port_chunks' = split_port_lists(ports')
    /\ UNCHANGED <<ipsetVars, tagsVars, epVars, rulesVars, fetcdVars, recVars, taskVars, cleanupVars>>

NextPorts == \E p \in ExtraPorts : AddPort(p)

SpecPorts == InitPorts /\ [][NextPorts]_vars

\* The chunk that carries port 0
ZeroChunk == << <<"0">> >>

\* A port string that names port 0: "0" or a range with an endpoint 0
names_zero(text) == text[1] = "0" \/ text[Len(text)] = "0"

\* C15: port-chunking invariants. Every chunk of _split_port_lists has at most
\* 15 entries (a range counts 2); port 0 appears only as the single entry of one
\* chunk ["0"]; an input with no ports gives exactly one empty chunk and any
\* other input gives no empty chunk; hence the two assertions of
\* _rule_to_iptables_fragment on port lists hold for every chunk.
C15_PortChunks ==
    /\ \A c \in DOMAIN port_chunks :
           /\ num_ports(port_chunks[c]) <= MAX_MULTIPORT_ENTRIES
           /\ (\E k \in DOMAIN port_chunks[c] : names_zero(port_chunks[c][k]))
                  => port_chunks[c] = ZeroChunk
           /\ port_asserts_hold(port_chunks[c])
    /\ Cardinality({c \in DOMAIN port_chunks : port_chunks[c] = ZeroChunk}) <= 1
    /\ ports = <<>> => port_chunks = << <<>> >>
    /\ ports # <<>> => \A c \in DOMAIN port_chunks : port_chunks[c] # <<>>

\* C15 witness: a list with a zero port that is split in three: the chunk
\* ["0"], a chunk closed at 14 entries because a range did not fit, and the
\* chunk that starts with that range.
C15_Witness ==
    /\ Len(port_chunks) = 3
    /\ port_chunks[1] = ZeroChunk
    /\ num_ports(port_chunks[2]) = 14
    /\ is_range(port_chunks[3][1])

\* The port numbers that occur in the lists above, and int(text) on them
PortNumbers == 0..(LongPrefix + MaxPortNumber)

PortNum(digits) == CHOOSE n \in PortNumbers : ToString(n) = digits

\* The ports a port string matches; iptables takes a range in either order.
PortsOf(text) ==
    IF is_range(text)
    THEN LET a == PortNum(text[1])
             b == PortNum(text[3])
         IN  IF a <= b THEN a..b ELSE b..a
    ELSE {PortNum(text[1])}

PortsOfAll(texts) == UNION {PortsOf(texts[k]) : k \in DOMAIN texts}

RECURSIVE Concat(_)
Concat(lists) == IF lists = <<>> THEN <<>> ELSE Head(lists) \o Concat(Tail(lists))

\* What the normalisation is to make of one entry, read as numbers: nothing
\* for 0 and 0:0, "1" for 0:1 and 1:0, 1:N for 0:N, N:1 for N:0, the entry
\* itself otherwise.
Normalised(text) ==
    LET a == PortNum(text[1])
        b == PortNum(text[3])
    IN  IF ~is_range(text) THEN (IF a = 0 THEN <<>> ELSE << <<ToString(a)>> >>)
        ELSE IF a = 0 /\ b = 0 THEN <<>>
        ELSE IF {a, b} = {0, 1} THEN << <<"1">> >>
        ELSE IF a = 0 THEN << RangeText(1, b) >>
        ELSE IF b = 0 THEN << RangeText(a, 1) >>
        ELSE << RangeText(a, b) >>

RECURSIVE NormalisedAll(_)
NormalisedAll(port_list) ==
    IF port_list = <<>> THEN <<>>
    ELSE Normalised(str(Head(port_list))) \o NormalisedAll(Tail(port_list))

\* C16: port-chunking round trip. The chunks of _split_port_lists(L), put
\* together, match exactly the ports L matches; the entries without port 0 keep
\* their order and are normalised as stated (0 and 0:0 absent, 0:1 and 1:0 to
\* "1", 0:N to 1:N, N:0 to N:1); zero_present, and so the chunk ["0"], is there
\* iff some entry of L contained port 0.
C16_PortRoundTrip ==
    LET texts == [k \in DOMAIN ports |-> str(ports[k])]
        f == filter_zero_ports(ports)
        others == SelectSeq(port_chunks, LAMBDA c : c # ZeroChunk)
    IN  /\ PortsOfAll(Concat(port_chunks)) = PortsOfAll(texts)
        /\ Concat(others) = NormalisedAll(ports)
        /\ f.filtered_ports = NormalisedAll(ports)
        /\ f.zero_present <=> 0 \in PortsOfAll(texts)
        /\ f.zero_present <=> \E c \in DOMAIN port_chunks : port_chunks[c] = ZeroChunk

\* C16 witness: a list with 0:N, N:0 and 1:0 entries after the long prefix; its
\* chunks are the chunk ["0"] and two more.
C16_Witness ==
    /\ Len(port_chunks) = 3
    /\ \E i, j, k \in DOMAIN ports :
           /\ str(ports[i]) = RangeText(0, 5)
           /\ str(ports[j]) = RangeText(5, 0)
           /\ str(ports[k]) = RangeText(1, 0)

(***************************************************************************)
(* SpecRule: one rule compiled for a chain of either family                *)
(***************************************************************************)
RulePorts == {<<>>, <<IntPort(10)>>, <<IntPort(10), StrPort(RangeText(0, 12))>>}

RichRules ==
    { Rule(protocol, src_net, dst_net, src_tag, dst_tag, src_ports, dst_ports,
           icmp[1], icmp[2], action, None) :
        protocol \in {None, Some("tcp"), Some("icmp"), Some("icmpv6")},
        src_net \in {None} \cup {Some(n) : n \in Nets},
        dst_net \in {None, Some("10.0.0.0/8")},
        src_tag \in {None, Some("tag-foo")},
        dst_tag \in {None, Some("tag-bar")},
        src_ports \in RulePorts,
        dst_ports \in {<<>>, <<IntPort(20), IntPort(21)>>},
        icmp \in {<<None, None>>, <<Some(7), None>>, <<Some(7), Some(123)>>,
                  <<Some(255), None>>},
        action \in {None, Some("deny")} }

Compile(rule_list, ip_version) ==
    /\ rules' = rule_list
    /\ chain_version' = ip_version
    /\ fragments' = rules_to_chain_rewrite_lines(CHAIN_NAME, rule_list, ip_version,
                                                 ON_ALLOW, ON_DENY)
    /\ UNCHANGED <<ipsetVars, tagsVars, epVars, portsVars, fetcdVars, recVars, taskVars, cleanupVars>>

InitRule ==
    /\ RestIdle
    /\ IpsetIdle
    /\ ks = [n \in {"live", "tmp"} |-> Absent]
    /\ sc_pre = ks
    /\ TagsIdle
    /\ EndpointIdle

\* The chain of a profile of one rule is compiled.
CompileRule(rule, ip_version) ==
    /\ rules = <<>>
    /\ Compile(<<rule>>, ip_version)

NextRule == \E rule \in RichRules, ip_version \in {4, 6} : CompileRule(rule, ip_version)

SpecRule == InitRule /\ [][NextRule]_vars

\* The kind of match a word of a fragment starts, "" if it starts none
KindOf(words, k) ==
    LET w == words[k][1]
    IN  IF w = "--protocol" THEN "protocol"
        ELSE IF w = "--source" THEN "src_net"
        ELSE IF w = "--destination" THEN "dst_net"
        ELSE IF w = "--match-set"
        THEN (IF words[k + 2] = Word("src") THEN "src_tag" ELSE "dst_tag")
        ELSE IF w \in {"--source-ports", "--source-port"} THEN "src_ports"
        ELSE IF w \in {"--destination-ports", "--destination-port"} THEN "dst_ports"
        ELSE IF w \in {"--icmp-type", "--icmpv6-type"} THEN "icmp"
        ELSE IF w = "--jump" THEN "jump"
        ELSE ""

Kinds(words) ==
    SelectSeq([k \in DOMAIN words |-> KindOf(words, k)], LAMBDA x : x # "")

InOrder(kinds, order) ==
    \A i, j \in DOMAIN kinds :
        i < j => \E a, b \in DOMAIN order : a < b /\ order[a] = kinds[i] /\ order[b] = kinds[j]

\* A fragment that _rule_to_iptables_fragment returned
IsCompiled(f) ==
    /\ f # MarkFragment(CHAIN_NAME)
    /\ f # commented_drop_fragment(CHAIN_NAME, "ERROR failed to parse rules DROP:")

\* The terminal jump of the fragments of a rule
JumpOf(rule) == IF rule.action \in {None, Some("allow")} THEN ON_ALLOW ELSE ON_DENY

EndsWithJump(f, rule) ==
    /\ f[Len(f) - 1] = Word("--jump")
    /\ f[Len(f)] = Word(JumpOf(rule))
    /\ Kinds(f)[Len(Kinds(f))] = "jump"

\* C17 as stated: in every compiled fragment the matches come in the order
\* protocol, source net, destination net, source tag, destination tag, source
\* ports, destination ports, icmp type/code, and the terminal jump follows
\* (allow: the accept target, deny: the drop target).
C17_StatedOrder ==
    \A k \in DOMAIN fragments :
        IsCompiled(fragments[k]) =>
            /\ InOrder(Kinds(fragments[k]),
                       <<"protocol", "src_net", "dst_net", "src_tag", "dst_tag",
                         "src_ports", "dst_ports", "icmp", "jump">>)
            /\ EndsWithJump(fragments[k], rules[1])

\* C17 amended: in every compiled fragment the matches come in the order
\* protocol, then source net, source tag, source ports, then destination net,
\* destination tag, destination ports, then icmp type/code, and the terminal
\* jump follows (allow: the accept target, deny: the drop target).
C17_FragmentOrder ==
    \A k \in DOMAIN fragments :
        IsCompiled(fragments[k]) =>
            /\ InOrder(Kinds(fragments[k]),
                       <<"protocol", "src_net", "src_tag", "src_ports", "dst_net",
                         "dst_tag", "dst_ports", "icmp", "jump">>)
            /\ EndsWithJump(fragments[k], rules[1])

\* C17 witness: a fragment with a protocol, and a net, a tag and ports in each
\* direction.
C17_Witness ==
    \E k \in DOMAIN fragments :
        Kinds(fragments[k]) = <<"protocol", "src_net", "src_tag", "src_ports", "dst_net",
                                "dst_tag", "dst_ports", "jump">>

(***************************************************************************)
(* SpecChain: a rule list that grows rule by rule                          *)
(***************************************************************************)
MaxRules == 3

ChainRules ==
    { Rule(None, Some("10.0.0.0/8"), None, None, None, <<>>, <<>>, None, None, None, None),
      Rule(Some("icmpv6"), None, None, None, None, <<>>, <<>>, Some(7), None, None, Some(6)),
      Rule(Some("tcp"), None, None, None, None, <<IntPort(10), StrPort(RangeText(0, 12))>>,
           <<>>, None, None, None, Some(4)),
      Rule(Some("icmp"), None, None, None, None, <<>>, <<>>, Some(255), None, None, None),
      Rule(Some("tcp"), None, None, None, None, <<IntPort(0), IntPort(10), IntPort(11)>>,
           <<>>, Some(255), None, None, None),
      Rule(None, None, None, None, Some("tag-bar"), <<>>, <<>>, None, None,
           Some("deny"), Some(6)) }

InitChain ==
    /\ rules = <<>>
    /\ chain_version \in {4, 6}
    /\ fragments = rules_to_chain_rewrite_lines(CHAIN_NAME, rules, chain_version,
                                                ON_ALLOW, ON_DENY)
    /\ PortsIdle
    /\ FetcdIdle
    /\ RecordsIdle
    /\ TasksIdle
    /\ CleanupIdle
    /\ IpsetIdle
    /\ ks = [n \in {"live", "tmp"} |-> Absent]
    /\ sc_pre = ks
    /\ TagsIdle
    /\ EndpointIdle

\* The profile has one more rule; its chain is compiled again.
AddRule(rule) ==
    /\ Len(rules) < MaxRules
    /\ Compile(Append(rules, rule), chain_version)

NextChain == \E rule \in ChainRules : AddRule(rule)

SpecChain == InitChain /\ [][NextChain]_vars

\* The rule is compiled for the chain: its ip_version is absent or the chain's.
ForThisFamily(rule) == rule.ip_version = None \/ rule.ip_version = Some(chain_version)

\* What a rule list gives when compiled on its own, without the terminal mark
AloneFragments(rule_list) ==
    LET all == rules_to_chain_rewrite_lines(CHAIN_NAME, rule_list, chain_version,
                                            ON_ALLOW, ON_DENY)
    IN  SubSeq(all, 1, Len(all) - 1)

ErrorDrop == commented_drop_fragment(CHAIN_NAME, "ERROR failed to parse rules DROP:")

\* C18: rules_to_chain_rewrite_lines emits, in rule order, the fragments of the
\* rules whose ip_version is absent or the chain's family and nothing for the
\* others, then exactly one "Mark as not matched" fragment, which is last; a
\* list with no rule for the family gives that one fragment alone.
C18_ChainFragments ==
    LET kept == SelectSeq(rules, ForThisFamily)
        per_rule == [k \in DOMAIN kept |->
                        rule_to_iptables_fragments(CHAIN_NAME, kept[k], chain_version,
                                                   ON_ALLOW, ON_DENY)]
    IN  /\ fragments = Concat(per_rule) \o <<MarkFragment(CHAIN_NAME)>>
        /\ fragments[Len(fragments)] = MarkFragment(CHAIN_NAME)
        /\ Cardinality({k \in DOMAIN fragments : fragments[k] = MarkFragment(CHAIN_NAME)}) = 1
        /\ kept = <<>> => fragments = <<MarkFragment(CHAIN_NAME)>>

\* C18 witness: three rules, one of them of the other family and one that
\* gives two fragments.
C18_Witness ==
    /\ Len(rules) = 3
    /\ Len(SelectSeq(rules, ForThisFamily)) = 2
    /\ Len(fragments) = 4

\* C19: a rule with icmp_type 255 that is compiled for the chain leaves, at its
\* position, exactly one commented DROP fragment and none of its port-chunk
\* fragments; the fragments of the other rules and the terminal mark are what
\* they are without it.
C19_BadIcmpIsolated ==
    LET bad(r) == ForThisFamily(r) /\ r.icmp_type = Some(255)
        good == SelectSeq(rules, LAMBDA r : ~bad(r))
    IN  /\ \A k \in DOMAIN rules :
               bad(rules[k]) =>
                   /\ AloneFragments(<<rules[k]>>) = <<ErrorDrop>>
                   /\ fragments[Len(AloneFragments(SubSeq(rules, 1, k - 1))) + 1] = ErrorDrop
        /\ Cardinality({k \in DOMAIN fragments : fragments[k] = ErrorDrop})
               = Cardinality({k \in DOMAIN rules : bad(rules[k])})
        /\ SelectSeq(fragments, LAMBDA f : f # ErrorDrop)
               = rules_to_chain_rewrite_lines(CHAIN_NAME, good, chain_version,
                                              ON_ALLOW, ON_DENY)

\* C19 witness: a rule with ports in two chunks and icmp_type 255 stands
\* between two rules that compile; the chain is fragment, DROP, fragment, mark.
C19_Witness ==
    /\ Len(rules) = 3
    /\ rules[2].icmp_type = Some(255)
    /\ Len(split_port_lists(rules[2].src_ports)) = 2
    /\ Len(fragments) = 4
    /\ fragments[2] = ErrorDrop
    /\ IsCompiled(fragments[1])
    /\ IsCompiled(fragments[3])

(***************************************************************************)
(* SpecWatcher: EtcdAPI.load_config / start_watch and _EtcdWatcher._run    *)
(***************************************************************************)
InitWatcher ==
    /\ FetcdIdle
    /\ RecordsIdle
    /\ TasksIdle
    /\ CleanupIdle
    /\ PortsIdle
    /\ RulesIdle
    /\ IpsetIdle
    /\ ks = [n \in {"live", "tmp"} |-> Absent]
    /\ sc_pre = ks
    /\ TagsIdle
    /\ EndpointIdle

NotFetcd == <<ipsetVars, tagsVars, epVars, portsVars, rulesVars, recVars, taskVars, cleanupVars>>

apiVars == <<load_config, begin_polling, splitter, api_trace>>

storeVars == <<store_ready, store_config>>

cfgVars == <<configured, last_config, cfg_reports>>

\* A handler of EtcdAPI runs its statements; no greenlet switch in between.
ApiHandler(stmts, arg) ==
    LET a == ExecAll(ApiView, stmts, arg)
    IN  /\ exit_code = None
        /\ load_config' = a.load_config
        /\ begin_polling' = a.begin_polling
        /\ splitter' = a.splitter
        /\ api_trace' = stmts
        /\ UNCHANGED <<w_state, storeVars, cfgVars, w_round, w_sent, w_events, exit_code, w_last,
                       NotFetcd>>

ApiLoadConfig == ApiHandler(load_config_stmts, "none")

ApiStartWatch == ApiHandler(start_watch_stmts, "splitter")

\* The store delivers a change to a poll in progress as an event.
Notify(response) ==
    IF w_state = "POLL"
    THEN /\ Len(w_events) < MaxEvents
         /\ w_events' = Append(w_events, response)
    ELSE UNCHANGED w_events

\* The orchestrator writes or deletes the Ready key.
StoreSetReady(v) ==
    /\ store_ready' = v
    /\ Notify(IF v = None THEN Event("delete", READY_KEY, "") ELSE Event("set", READY_KEY, v[1]))
    /\ UNCHANGED <<w_state, apiVars, store_config, cfgVars, w_round, w_sent, exit_code, w_last,
                   NotFetcd>>

\* The orchestrator sets or deletes a global or per-host config parameter.
StoreSetConfig(c, action, key) ==
    /\ store_config' = IF key = "CONFIG_PARAM_KEY" THEN [store_config EXCEPT !.global = c]
                       ELSE [store_config EXCEPT !.host = c]
    /\ Notify(Event(action, key, ""))
    /\ UNCHANGED <<w_state, apiVars, store_ready, cfgVars, w_round, w_sent, exit_code, w_last,
                   NotFetcd>>

\* A directory is deleted with all it holds: the Ready key is under
\* VERSION_DIR, the global config under CONFIG_DIR, the per-host config under
\* HOST_DIR.
StoreDeleteDir(dir) ==
    /\ store_ready' = IF dir = "VERSION_DIR" THEN None ELSE store_ready
    /\ store_config' = IF dir = "VERSION_DIR" THEN EmptyConfig
                       ELSE IF dir = "CONFIG_DIR" THEN [store_config EXCEPT !.global = "{}"]
                       ELSE IF dir = "HOST_DIR" THEN [store_config EXCEPT !.host = "{}"]
                       ELSE store_config
    /\ Notify(Event("delete", dir, ""))
    /\ UNCHANGED <<w_state, apiVars, cfgVars, w_round, w_sent, exit_code, w_last, NotFetcd>>

\* An endpoint, tags, rules or pool key is set or deleted.
StoreRecord(action) ==
    /\ w_state = "POLL"
    /\ Notify(Event(action, RecordKey, ""))
    /\ UNCHANGED <<w_state, apiVars, storeVars, cfgVars, w_round, w_sent, exit_code, w_last,
                   NotFetcd>>

\* The splitter takes the next message from its mailbox (as does the hosts
\* ipset).
Receive ==
    /\ w_sent # <<>>
    /\ w_sent' = Tail(w_sent)
    /\ UNCHANGED <<w_state, apiVars, storeVars, cfgVars, w_round, w_events, exit_code, w_last,
                   NotFetcd>>

\* The greenlet starts _run and blocks in load_config.wait().
WatcherStart ==
    /\ w_state = "INIT"
    /\ w_state' = "WAIT_CONFIG"
    /\ w_last' = "started"
    /\ UNCHANGED <<apiVars, storeVars, cfgVars, w_round, w_sent, w_events, exit_code,
                   NotFetcd>>

\* load_config.wait() returns; the loop starts with reconnect().
WatcherConfigRequested ==
    /\ w_state = "WAIT_CONFIG"
    /\ load_config
    /\ w_state' = "WAIT_READY"
    /\ w_round' = FreshRound
    /\ w_last' = "reconnect"
    /\ UNCHANGED <<apiVars, storeVars, cfgVars, w_sent, w_events, exit_code, NotFetcd>>

\* What a read of the store may raise: nothing, an EtcdException, or an error
\* of a layer below the client ("ReadTimeoutError" stands for those that
\* _periodically_report_status lists besides EtcdException).
ReadErrors == {"", "EtcdException", "ReadTimeoutError"}

\* The except clauses of _wait_for_ready and _load_config
CaughtByReads == {"EtcdKeyNotFound", "EtcdException"}

\* The except clause of _periodically_report_status
CaughtByStatus == {"EtcdException", "ReadTimeoutError"}

\* _wait_for_ready: one read of the Ready key, which may raise error.  An
\* exception that is not caught ends the greenlet, and _on_worker_died exits
\* with code 1.
WatcherReadReady(error) ==
    /\ w_state = "WAIT_READY"
    /\ LET raised == IF error # "" THEN error
                     ELSE IF store_ready = None THEN "EtcdKeyNotFound" ELSE ""
           db_ready == IF raised # "" THEN "false" ELSE store_ready[1]
       IN  /\ w_last' = IF raised = "" THEN "ready: read" ELSE "ready: " \o raised
           /\ IF raised # "" /\ raised \notin CaughtByReads
              THEN /\ w_state' = "EXITED"
                   /\ exit_code' = Some(1)
                   /\ UNCHANGED w_round
              ELSE IF db_ready = "true"
              THEN /\ w_state' = "LOAD_CONFIG"
                   /\ w_round' = [w_round EXCEPT !.ready_read = TRUE]
                   /\ UNCHANGED exit_code
              ELSE UNCHANGED <<w_state, w_round, exit_code>>
    /\ UNCHANGED <<apiVars, storeVars, cfgVars, w_sent, w_events, NotFetcd>>

\* Mutant of _load_config: only the global dict is compared.
watcher_load_config_global_only(global_dict, host_dict, failed) ==
    IF failed THEN [state |-> "LOAD_CONFIG", last |-> last_config, reports |-> cfg_reports,
                    exit |-> None]
    ELSE IF configured
    THEN IF global_dict # last_config[1].global
         THEN [state |-> "EXITED", last |-> last_config, reports |-> cfg_reports,
               exit |-> <<1>>]
         ELSE [state |-> "WAIT_BEGIN", last |-> last_config, reports |-> cfg_reports,
               exit |-> None]
    ELSE [state |-> "WAIT_BEGIN", last |-> <<[host |-> host_dict, global |-> global_dict]>>,
          reports |-> cfg_reports + 1, exit |-> None]

\* _load_config: one read of the global and the per-host config; failed is a
\* store error (retry).  state is where the watcher goes, last the first-loaded
\* dicts, reports the number of report_etcd_config calls, exit the exit code
\* if the process dies.
watcher_load_config(global_dict, host_dict, failed) ==
    IF failed THEN [state |-> "LOAD_CONFIG", last |-> last_config, reports |-> cfg_reports,
                    exit |-> None]
    ELSE IF configured
    THEN IF host_dict # last_config[1].host \/ global_dict # last_config[1].global
         THEN \* die_and_restart(): os._exit(1)
              [state |-> "EXITED", last |-> last_config, reports |-> cfg_reports,
               exit |-> <<1>>]
         ELSE [state |-> "WAIT_BEGIN", last |-> last_config, reports |-> cfg_reports,
               exit |-> None]
    ELSE [state |-> "WAIT_BEGIN", last |-> <<[host |-> host_dict, global |-> global_dict]>>,
          reports |-> cfg_reports + 1, exit |-> None]

\* _load_config, then configured.set() and begin_polling.wait(); the read may
\* raise error.
WatcherLoadConfig(error) ==
    /\ w_state = "LOAD_CONFIG"
    /\ w_last' = IF error = "" THEN "config: read" ELSE "config: " \o error
    /\ IF error # "" /\ error \notin CaughtByReads
       THEN /\ w_state' = "EXITED"
            /\ exit_code' = Some(1)
            /\ UNCHANGED <<cfgVars, w_round>>
       ELSE LET r == watcher_load_config(store_config.global, store_config.host, error # "")
            IN  /\ w_state' = r.state
                /\ last_config' = r.last
                /\ cfg_reports' = r.reports
                /\ exit_code' = r.exit
                /\ configured' = (configured \/ r.state = "WAIT_BEGIN")
                /\ w_round' = [w_round EXCEPT !.config_loaded = (r.state = "WAIT_BEGIN")]
    /\ UNCHANGED <<apiVars, storeVars, w_sent, w_events, NotFetcd>>

\* begin_polling.wait() returns; _load_initial_dump sends its read.
WatcherBegin ==
    /\ w_state = "WAIT_BEGIN"
    /\ begin_polling
    /\ w_state' = "SNAPSHOT"
    /\ w_round' = [w_round EXCEPT !.begun = TRUE]
    /\ w_last' = "begin"
    /\ UNCHANGED <<apiVars, storeVars, cfgVars, w_sent, w_events, exit_code, NotFetcd>>

\* Mutant of _load_initial_dump: a snapshot without the Ready key is applied.
load_initial_dump_absent_ok(snapshot_ready) ==
    IF snapshot_ready # None /\ snapshot_ready # <<"true">> THEN <<"ResyncRequired">>
    ELSE IF splitter = None THEN <<"AttributeError">>
    ELSE IF IP_IN_IP_ENABLED THEN <<"apply_snapshot", "hosts_ipset.replace_members">>
    ELSE <<"apply_snapshot">>

\* _load_initial_dump on a snapshot whose Ready key is snapshot_ready: the
\* exception it raises, or the messages it sends.
load_initial_dump(snapshot_ready) ==
    IF snapshot_ready # <<"true">> THEN <<"ResyncRequired">>
    ELSE IF splitter = None THEN <<"AttributeError">>
    ELSE IF IP_IN_IP_ENABLED THEN <<"apply_snapshot", "hosts_ipset.replace_members">>
    ELSE <<"apply_snapshot">>

\* _load_initial_dump: the snapshot arrives. An exception other than
\* ResyncRequired ends the greenlet, and _on_worker_died exits with code 1.
WatcherLoadInitialDump ==
    /\ w_state = "SNAPSHOT"
    /\ LET r == load_initial_dump(store_ready)
       IN  /\ w_last' = "snapshot: " \o r[1]
           /\ IF r = <<"ResyncRequired">>
              THEN /\ w_state' = "WAIT_READY"
                   /\ w_round' = FreshRound
                   /\ UNCHANGED <<w_sent, exit_code>>
              ELSE IF r = <<"AttributeError">>
              THEN /\ w_state' = "EXITED"
                   /\ exit_code' = <<1>>
                   /\ UNCHANGED <<w_round, w_sent>>
              ELSE /\ Len(w_sent) + Len(r) <= MaxSent
                   /\ w_sent' = w_sent \o r
                   /\ w_state' = "POLL"
                   /\ UNCHANGED <<w_round, exit_code>>
    /\ w_events' = <<>>
    /\ UNCHANGED <<apiVars, storeVars, cfgVars, NotFetcd>>

\* wait_for_etcd_event returns and dispatcher.handle_event runs.  resync: the
\* helper raises ResyncRequired itself (resync_after_current_poll).
WatcherPoll(resync) ==
    /\ w_state = "POLL"
    /\ resync \/ w_events # <<>>
    /\ LET r == IF resync THEN "ResyncRequired" ELSE handle_event(Head(w_events))
       IN  /\ w_last' = IF resync THEN "poll: resync_after_current_poll"
                        ELSE "poll: " \o Head(w_events).action \o " " \o Head(w_events).key
                                 \o ": " \o r
           /\ IF r = "ResyncRequired"
              THEN /\ w_state' = "WAIT_READY"
                   /\ w_round' = FreshRound
                   /\ w_events' = <<>>
                   /\ UNCHANGED w_sent
              ELSE /\ r = "send" => Len(w_sent) < MaxSent
                   /\ w_sent' = IF r = "send" THEN Append(w_sent, "event") ELSE w_sent
                   /\ w_events' = Tail(w_events)
                   /\ UNCHANGED <<w_state, w_round>>
    /\ UNCHANGED <<apiVars, storeVars, cfgVars, exit_code, NotFetcd>>

NextWatcher ==
    \/ ApiLoadConfig
    \/ ApiStartWatch
    \/ \E v \in ReadyValues : StoreSetReady(v)
    \/ \E c \in ConfigValues, action \in {"set", "delete"}, key \in ConfigKeys :
           StoreSetConfig(c, action, key)
    \/ \E dir \in RESYNC_KEYS : StoreDeleteDir(dir)
    \/ \E action \in {"set", "delete"} : StoreRecord(action)
    \/ Receive
    \/ WatcherStart
    \/ WatcherConfigRequested
    \/ \E error \in ReadErrors : WatcherReadReady(error)
    \/ \E error \in ReadErrors : WatcherLoadConfig(error)
    \/ WatcherBegin
    \/ WatcherLoadInitialDump
    \/ \E resync \in BOOLEAN : WatcherPoll(resync)

SpecWatcher == InitWatcher /\ [][NextWatcher]_vars

\* The stages of the watcher in their order, and the steps between them
StageOrder == <<"INIT", "WAIT_CONFIG", "WAIT_READY", "LOAD_CONFIG", "WAIT_BEGIN",
                "SNAPSHOT", "POLL">>

StageSteps ==
    {<<StageOrder[k], StageOrder[k + 1]>> : k \in 1..(Len(StageOrder) - 1)}
        \cup {<<"SNAPSHOT", "WAIT_READY">>, <<"POLL", "WAIT_READY">>,
              <<"WAIT_READY", "EXITED">>, <<"LOAD_CONFIG", "EXITED">>,
              <<"SNAPSHOT", "EXITED">>}

\* C20: the watcher passes its stages in order. It loads a snapshot or
\* dispatches an event only after load_config was signalled, the Ready key was
\* read as "true", the config was loaded, configured was set and begin_polling
\* was signalled; start_watch sets the splitter before it signals
\* begin_polling, so the splitter is not None when the watcher uses it.
C20_WatcherOrder ==
    /\ [][w_state' # w_state => <<w_state, w_state'>> \in StageSteps]_vars
    /\ [][Len(w_sent') > Len(w_sent) => w_state \in {"SNAPSHOT", "POLL"}]_vars
    /\ [](w_state \in {"SNAPSHOT", "POLL"} =>
             /\ load_config
             /\ w_round.ready_read
             /\ w_round.config_loaded
             /\ last_config # None
             /\ configured
             /\ begin_polling
             /\ w_round.begun
             /\ splitter # None)
    /\ [](w_state = "WAIT_BEGIN" => configured)
    /\ [](\A i, j \in DOMAIN api_trace :
             api_trace[i] = "splitter =" /\ api_trace[j] = "begin_polling.set" => i < j)
    /\ [](begin_polling => splitter # None)

\* C20 witness: the watcher polls after start_watch, having applied a snapshot
\* and dispatched an event.
C20_Witness ==
    /\ w_state = "POLL"
    /\ api_trace = start_watch_stmts
    /\ w_sent = <<"apply_snapshot", "event">>

\* C21: a snapshot is submitted only if its Ready key is "true". If the key is
\* absent or has another value, ResyncRequired is raised, nothing is sent to
\* the splitter or to the hosts ipset, and the watcher starts over.
C21_SnapshotOnlyIfReady ==
    [][w_state = "SNAPSHOT" /\ w_state' # "SNAPSHOT" =>
          IF store_ready = Some("true")
          THEN w_last' # "snapshot: ResyncRequired"
               /\ (w_state' = "POLL" =>
                      /\ Len(w_sent') > Len(w_sent)
                      /\ w_sent'[Len(w_sent) + 1] = "apply_snapshot")
          ELSE /\ w_last' = "snapshot: ResyncRequired"
               /\ w_sent' = w_sent
               /\ w_state' = "WAIT_READY"
               /\ w_round' = FreshRound]_vars

\* C21 witness: a snapshot without a Ready key "true" was refused while an
\* earlier snapshot's message is still in flight.
C21_Witness ==
    /\ w_last = "snapshot: ResyncRequired"
    /\ w_state = "WAIT_READY"
    /\ store_ready # Some("true")
    /\ w_sent # <<>>

\* The watcher's reads succeed, its steps are taken and the mailboxes are
\* served again and again.
SpecWatcherFair ==
    /\ SpecWatcher
    /\ WF_vars(WatcherReadReady(""))
    /\ WF_vars(WatcherLoadConfig(""))
    /\ WF_vars(WatcherBegin)
    /\ WF_vars(WatcherLoadInitialDump)
    /\ WF_vars(Receive)

\* The watcher takes the event at the head of w_events
DispatchStep ==
    /\ w_state = "POLL"
    /\ Len(w_events') < Len(w_events)
    /\ w_last' # "poll: resync_after_current_poll"

ReadyUnset(response) ==
    response.key = READY_KEY /\ (response.action = "delete" \/ response.value # "true")

ReadyAborted ==
    w_last \in {"poll: set READY_KEY: ResyncRequired", "poll: delete READY_KEY: ResyncRequired"}

ConfigReadStep == w_state = "LOAD_CONFIG" /\ w_last' = "config: read"

\* C23: the config object is populated once, by the first load; a later load
\* compares the global and the per-host dict with the first-loaded ones and
\* exits with code 1 if either differs, with no further snapshot applied, and
\* otherwise goes on with the config unchanged.
C23_NoInPlaceReconfig ==
    /\ [](cfg_reports <= 1 /\ (configured <=> cfg_reports = 1) /\ (configured <=> last_config # None))
    /\ [][last_config # None => last_config' = last_config]_vars
    /\ [][ConfigReadStep /\ configured =>
              IF store_config # last_config[1]
              THEN w_state' = "EXITED" /\ exit_code' = Some(1) /\ cfg_reports' = cfg_reports
              ELSE w_state' = "WAIT_BEGIN" /\ exit_code' = None /\ cfg_reports' = cfg_reports]_vars
    /\ [][ConfigReadStep /\ ~configured =>
              /\ last_config' = Some(store_config)
              /\ cfg_reports' = 1
              /\ configured'
              /\ w_state' = "WAIT_BEGIN"]_vars
    /\ []((exit_code # None) <=> (w_state = "EXITED"))
    /\ [][w_state = "EXITED" => w_state' = "EXITED" /\ Len(w_sent') <= Len(w_sent)]_vars

\* C23 witness: the process exited with code 1 on a later load because the
\* per-host dict alone had changed.
C23_Witness ==
    /\ exit_code = Some(1)
    /\ w_last = "config: read"
    /\ cfg_reports = 1
    /\ store_config.host # last_config[1].host
    /\ store_config.global = last_config[1].global

\* The events that C24 names
ResyncEvents ==
    {Event("delete", key, "") : key \in RESYNC_KEYS \cup {READY_KEY} \cup ConfigKeys}
        \cup {Event("set", key, "") : key \in ConfigKeys}

InitRecords == InitWatcher

NotRecords == <<ipsetVars, tagsVars, epVars, portsVars, rulesVars, fetcdVars, taskVars, cleanupVars>>

RecEvent(action, key, id, value) == [id |-> id, action |-> action, key |-> key, value |-> value]

\* The keys of profiles and pools
OtherRecordKeys == {"RULES_KEY", "TAGS_KEY", "CIDR_V4_KEY"}

\* The handler runs: h is what it does
RecHandle(event, h, latest) ==
    /\ endpoint_ids_per_host' = h.cache
    /\ sp_sent' = h.sent
    /\ rec_last' = Some(event)
    /\ rec_latest' = latest
    /\ UNCHANGED <<hostVars, NotRecords>>

\* The endpoints under a directory
Under(hostname, orchestrator, workload_id) ==
    {id \in RecEndpointIds : /\ id[1] = hostname
                             /\ orchestrator \in {"", id[2]}
                             /\ workload_id \in {"", id[3]}}

Gone(ids) == [id \in RecEndpointIds |-> IF id \in ids THEN "absent" ELSE rec_latest[id]]

\* _load_initial_dump on a snapshot with the endpoint entries given
RecSnapshot(entries) ==
    RecHandle(RecEvent("snapshot", "", <<>>, ""),
              Handled(snapshot_endpoint_ids(entries), <<Msg("apply_snapshot", <<>>, None)>>),
              [id \in RecEndpointIds |->
                  IF id \notin DOMAIN entries THEN "absent"
                  ELSE IF entries[id] = "{valid}" THEN "snapshot valid"
                  ELSE "snapshot invalid"])

RecEndpointSet(combined_id, value) ==
    RecHandle(RecEvent("set", "PER_ENDPOINT_KEY", combined_id, value),
              on_endpoint_set(endpoint_ids_per_host, combined_id, value),
              [rec_latest EXCEPT ![combined_id] = "event set"])

RecEndpointDelete(combined_id) ==
    RecHandle(RecEvent("delete", "PER_ENDPOINT_KEY", combined_id, ""),
              on_endpoint_delete(endpoint_ids_per_host, combined_id),
              Gone({combined_id}))

RecOtherSet(key, id, value) ==
    RecHandle(RecEvent("set", key, id, value),
              IF key = "RULES_KEY" THEN on_rules_set(endpoint_ids_per_host, id, value)
              ELSE IF key = "TAGS_KEY" THEN on_tags_set(endpoint_ids_per_host, id, value)
              ELSE on_ipam_v4_pool_set(endpoint_ids_per_host, id, value),
              rec_latest)

RecOtherDelete(key, id) ==
    RecHandle(RecEvent("delete", key, id, ""),
              IF key = "RULES_KEY" THEN on_rules_delete(endpoint_ids_per_host, id)
              ELSE IF key = "TAGS_KEY" THEN on_tags_delete(endpoint_ids_per_host, id)
              ELSE on_ipam_v4_pool_delete(endpoint_ids_per_host, id),
              rec_latest)

\* PER_HOST_DIR and WORKLOAD_DIR are registered with on_host_delete
RecHostDelete(key, hostname) ==
    \E order \in Orders_of(IdsOn(endpoint_ids_per_host, hostname)) :
        RecHandle(RecEvent("delete", key, <<hostname>>, ""),
                  on_host_delete(endpoint_ids_per_host, hostname, order),
                  Gone(Under(hostname, "", "")))

RecOrchDelete(hostname, orchestrator) ==
    \E order \in Orders_of(IdsOn(endpoint_ids_per_host, hostname)) :
        RecHandle(RecEvent("delete", "PER_ORCH_DIR", <<hostname, orchestrator>>, ""),
                  on_orch_delete(endpoint_ids_per_host, hostname, orchestrator, order),
                  Gone(Under(hostname, orchestrator, "")))

\* PER_WORKLOAD_DIR and ENDPOINT_DIR are registered with on_workload_delete
RecWorkloadDelete(key, hostname, orchestrator, workload_id) ==
    \E order \in Orders_of(IdsOn(endpoint_ids_per_host, hostname)) :
        RecHandle(RecEvent("delete", key, <<hostname, orchestrator, workload_id>>, ""),
                  on_workload_delete(endpoint_ids_per_host, hostname, orchestrator,
                                     workload_id, order),
                  Gone(Under(hostname, orchestrator, workload_id)))

NextRecords ==
    \/ \E ids \in SUBSET RecEndpointIds : \E entries \in [ids -> {"{valid}", "{invalid}"}] :
           RecSnapshot(entries)
    \/ \E id \in RecEndpointIds, value \in RawValues : RecEndpointSet(id, value)
    \/ \E id \in RecEndpointIds : RecEndpointDelete(id)
    \/ \E key \in OtherRecordKeys, value \in RawValues : RecOtherSet(key, <<"id1">>, value)
    \/ \E key \in OtherRecordKeys : RecOtherDelete(key, <<"id1">>)
    \/ \E key \in {"PER_HOST_DIR", "WORKLOAD_DIR"}, h \in RecHosts : RecHostDelete(key, h)
    \/ \E h \in RecHosts, o \in {"o1", "o2"} : RecOrchDelete(h, o)
    \/ \E key \in {"PER_WORKLOAD_DIR", "ENDPOINT_DIR"}, h \in RecHosts, o \in {"o1", "o2"},
          w \in {"w1", "w2"} : RecWorkloadDelete(key, h, o, w)

SpecRecords == InitRecords /\ [][NextRecords]_vars

\* The message that the delete handler of a record key sends
DeleteMessage(key, id) ==
    IF key = "PER_ENDPOINT_KEY" THEN on_endpoint_delete(EmptyDict, id).sent
    ELSE IF key = "RULES_KEY" THEN on_rules_delete(EmptyDict, id).sent
    ELSE IF key = "TAGS_KEY" THEN on_tags_delete(EmptyDict, id).sent
    ELSE on_ipam_v4_pool_delete(EmptyDict, id).sent

RecordKeys == OtherRecordKeys \cup {"PER_ENDPOINT_KEY"}

\* C25: a set event of an endpoint, tags, rules or pool key whose value does
\* not decode or does not validate sends the splitter what a delete event of
\* that key sends, a null update, and nothing else; a set event with a valid
\* value sends that value, whatever came before.
C25_InvalidRecordIsDeletion ==
    rec_last # None /\ rec_last[1].key \in RecordKeys /\ rec_last[1].action = "set" =>
        IF rec_last[1].value = "{valid}"
        THEN /\ Len(sp_sent) = 1
             /\ sp_sent[1].id = rec_last[1].id
             /\ sp_sent[1].value = Some("{valid}")
        ELSE /\ sp_sent = DeleteMessage(rec_last[1].key, rec_last[1].id)
             /\ Len(sp_sent) = 1
             /\ sp_sent[1].value = None

\* C25 witness: an endpoint value that is not JSON was handled while another
\* endpoint of the host is known.
C25_Witness ==
    /\ rec_last = Some(RecEvent("set", "PER_ENDPOINT_KEY", EndpointId("h1", "o1", "w1", "e1"),
                                "not json"))
    /\ sp_sent = <<Msg("on_endpoint_update", EndpointId("h1", "o1", "w1", "e1"), None)>>
    /\ EndpointId("h1", "o1", "w2", "e1") \in IdsOn(endpoint_ids_per_host, "h1")

DirKeys == {"PER_HOST_DIR", "WORKLOAD_DIR", "PER_ORCH_DIR", "PER_WORKLOAD_DIR", "ENDPOINT_DIR"}

\* The endpoints under the directory that an event deletes
UnderDir(event) ==
    Under(event.id[1],
          IF Len(event.id) >= 2 THEN event.id[2] ELSE "",
          IF Len(event.id) >= 3 THEN event.id[3] ELSE "")

CachedIds(cache) == UNION {cache[h] : h \in DOMAIN cache}

\* A step that handles the deletion of a directory sends exactly one null
\* update for each endpoint under it that is in expected, nothing else, and
\* leaves no endpoint of the directory in the cache.
FansOut(expected) ==
    rec_last' # None /\ rec_last'[1].key \in DirKeys =>
        LET dir == UnderDir(rec_last'[1])
        IN  /\ {sp_sent'[k].id : k \in DOMAIN sp_sent'} = dir \cap expected
            /\ Len(sp_sent') = Cardinality(dir \cap expected)
            /\ \A k \in DOMAIN sp_sent' :
                   sp_sent'[k].op = "on_endpoint_update" /\ sp_sent'[k].value = None
            /\ CachedIds(endpoint_ids_per_host') \cap dir = {}
            /\ CachedIds(endpoint_ids_per_host') = CachedIds(endpoint_ids_per_host) \ dir

\* C27 as stated: the deletion of a directory fans out to every endpoint under
\* it whose latest snapshot entry or event was a set.
C27_StatedFanout ==
    [][FansOut({id \in RecEndpointIds : rec_latest[id] # "absent"})]_vars

\* C27: the deletion of a host, workload-list, orchestrator, workload or
\* endpoint-list directory sends one null update for every endpoint under it
\* whose latest snapshot entry was a valid endpoint or whose latest event was
\* a set, and for no other endpoint; afterwards none of the directory's
\* endpoints is in endpoint_ids_per_host, which always holds exactly those
\* endpoints.
C27_DirectoryFanout ==
    /\ [][FansOut({id \in RecEndpointIds : rec_latest[id] \in {"snapshot valid", "event set"}})]_vars
    /\ [](CachedIds(endpoint_ids_per_host)
              = {id \in RecEndpointIds : rec_latest[id] \in {"snapshot valid", "event set"}})
    /\ [](\A h \in DOMAIN endpoint_ids_per_host :
              endpoint_ids_per_host[h] # {} /\ \A id \in endpoint_ids_per_host[h] : id[1] = h)

\* C27 witness: the deletion of an orchestrator directory was fanned out to
\* its two endpoints while a third endpoint of the host stays known.
C27_Witness ==
    /\ rec_last = Some(RecEvent("delete", "PER_ORCH_DIR", <<"h1", "o1">>, ""))
    /\ Len(sp_sent) = 2
    /\ IdsOn(endpoint_ids_per_host, "h1") = {EndpointId("h1", "o2", "w1", "e1")}

\* A read of the Ready flag or of the config by the watcher has raised
FailedReadStep ==
    /\ w_state \in {"WAIT_READY", "LOAD_CONFIG"}
    /\ \E error \in ReadErrors \ {""} : w_last' \in {"ready: " \o error, "config: " \o error}

\* C26: a transient store error while the watcher reads the Ready flag or
\* loads the config leads to a retry and changes nothing: the watcher stays
\* where it is, the process does not exit, last_global_config,
\* last_host_config and configured are unchanged and nothing is sent.
C26_TransientErrorRetries ==
    [][FailedReadStep =>
          /\ w_state' = w_state
          /\ exit_code' = None
          /\ UNCHANGED cfgVars
          /\ Len(w_sent') <= Len(w_sent)]_vars

(***************************************************************************)
(* SpecTasks: what the exit of a top-level greenlet does to the process    *)
(***************************************************************************)
InitTasks == InitWatcher

NotTasks == <<ipsetVars, tagsVars, epVars, portsVars, rulesVars, fetcdVars, recVars, cleanupVars>>

\* A greenlet returns or raises.
TaskExit(task, how) ==
    /\ proc_exit = None
    /\ tasks[task] = "running"
    /\ tasks' = [tasks EXCEPT ![task] = how]
    /\ UNCHANGED <<root_state, main_state, proc_exit, NotTasks>>

\* _main_greenlet: iwait yields a stopped greenlet; get() re-raises its
\* exception, or AssertionError is raised for one that returned.
RootWakes ==
    /\ proc_exit = None
    /\ root_state = "iwait"
    /\ \E t \in RootChildren : tasks[t] # "running"
    /\ root_state' = "raised"
    /\ UNCHANGED <<tasks, main_state, proc_exit, NotTasks>>

\* main(): join() on the root greenlet returns once it is dead, without
\* raising its exception; main returns and the interpreter ends with status 0.
MainJoinReturns ==
    /\ proc_exit = None
    /\ main_state = "join"
    /\ root_state = "raised"
    /\ main_state' = "returned"
    /\ proc_exit' = Some(0)
    /\ UNCHANGED <<tasks, root_state, NotTasks>>

\* EtcdAPI._on_worker_died: sys.exit(1) in the hub; SystemExit reaches main(),
\* whose except BaseException clause calls os._exit(1).
WorkerDied(task) ==
    /\ proc_exit = None
    /\ main_state = "join"
    /\ tasks[task] # "running"
    /\ on_worker_died_runs(task, tasks[task])
    /\ main_state' = "os._exit"
    /\ proc_exit' = Some(1)
    /\ UNCHANGED <<tasks, root_state, NotTasks>>

NextTasks ==
    \/ \E t \in RootChildren \cup EtcdTasks, how \in {"returned", "failed"} : TaskExit(t, how)
    \/ RootWakes
    \/ MainJoinReturns
    \/ \E t \in EtcdTasks : WorkerDied(t)

SpecTasks == InitTasks /\ [][NextTasks]_vars

\* Every greenlet that can run does, and so does main().
SpecTasksFair ==
    /\ SpecTasks
    /\ WF_vars(RootWakes)
    /\ WF_vars(MainJoinReturns)
    /\ \A t \in EtcdTasks : WF_vars(WorkerDied(t))

\* C28: the exit of any top-level task, by return or by exception, ends the
\* process with exit status 1; the process never exits with status 0.
C28_TaskExitKillsProcess ==
    /\ [](proc_exit # Some(0))
    /\ \A t \in RootChildren \cup EtcdTasks : (tasks[t] # "running") ~> (proc_exit = Some(1))

(***************************************************************************)
(* SpecTags: a stopping TagIpset                                           *)
(***************************************************************************)
\* C30: a stopping TagIpset is never revived. Its stopped flag is cleared only
\* by the creation of a new instance, which happens only once the old one has
\* signalled cleanup_complete; while an instance is stopped no batch, whatever
\* replace_members it holds, writes to the kernel sets (they can only be
\* deleted) or changes programmed_members; and while an old instance is in
\* stopping_objects_by_id no new instance of the tag has been started.
C30_StoppingNeverRevived ==
    [][\A t \in Tags :
          /\ (a_stopped[t] /\ ~a_stopped'[t]) =>
                /\ ref_state'[t] = "starting"
                /\ ~stopping'[t]
                /\ (stopping[t] => cleanup_msgs[t])
          /\ a_stopped'[t] =>
                /\ kern'[t]["live"] \in {kern[t]["live"], Absent}
                /\ kern'[t]["tmp"] \in {kern[t]["tmp"], Absent}
                /\ a_programmed'[t] = a_programmed[t]
          /\ stopping'[t] => ref_state'[t] \in {"none", "created"}]_vars

\* C30 witness: the tag was referenced again while its TagIpset was stopping;
\* the old instance took a replace_members of new members in the batch of its
\* on_unreferenced, wrote nothing, deleted its sets and signalled
\* cleanup_complete, which the manager has not handled yet.
C30_Witness ==
    /\ a_stopped["t1"]
    /\ stopping["t1"]
    /\ ref_state["t1"] = "created"
    /\ cleanup_msgs["t1"]
    /\ a_members["t1"] # {}
    /\ a_programmed["t1"] # Some(a_members["t1"])
    /\ kern["t1"] = [tmp |-> Absent, live |-> Absent]

(***************************************************************************)
(* SpecCleanup: IpsetManager.cleanup among referenced and stopping tags    *)
(***************************************************************************)
\* Sets left over from an earlier run: of either tag, live or temporary, and
\* any of the other sets.
InitCleanup ==
    /\ TagsFresh
    /\ kern \in [Tags -> [tmp : {Absent, KSet({})}, live : {Absent, KSet({})}]]
    /\ other_sets \in SUBSET OtherNames
    /\ cleanup_calls = EmptyDict
    /\ PortsIdle /\ RulesIdle /\ FetcdIdle /\ RecordsIdle /\ TasksIdle
    /\ EndpointIdle
    /\ IpsetIdle
    /\ ks = [n \in {"live", "tmp"} |-> Absent]
    /\ sc_pre = ks

\* objects_by_id and stopping_objects_by_id, as the tags they hold objects of
ObjectsById == {t \in Tags : ref_state[t] # "none"}

StoppingObjectsById == {t \in Tags : stopping[t]}

\* IpsetManager.cleanup as a message: every name chosen is passed to
\* "ipset destroy"; a call that raises FailedSystemCall leaves its set.
MgrCleanup ==
    LET to_delete == ipsets_to_delete(list_ipset_names(kern, other_sets),
                                      ObjectsById, StoppingObjectsById)
    IN  \E failed \in SUBSET to_delete :
          LET gone == to_delete \ failed
          IN  /\ kern' = [t \in Tags |->
                    [tmp |-> IF tag_to_ipset_name(ip_type, t, TRUE) \in gone
                             THEN Absent ELSE kern[t]["tmp"],
                     live |-> IF tag_to_ipset_name(ip_type, t, FALSE) \in gone
                              THEN Absent ELSE kern[t]["live"]]]
              /\ other_sets' = other_sets \ gone
              /\ cleanup_calls' = [n \in to_delete |->
                                      IF n \in failed THEN "FailedSystemCall" ELSE "ok"]
              /\ mgr_in_batch' = TRUE
              /\ mgr_last' = "cleanup"
              /\ UNCHANGED <<indexVars, refVars, a_queue, a_members, a_programmed,
                             a_stopped, a_notified, a_batch, ipsetVars, epVars,
                             portsVars, rulesVars, fetcdVars, recVars, taskVars>>

NextCleanup ==
    \/ \E t \in ReferencedTags : MgrIncref(t)
    \/ \E t \in ReferencedTags : MgrDecref(t)
    \/ \E t \in ReferencedTags : MgrStartupComplete(t)
    \/ \E t \in ReferencedTags : MgrCleanupComplete(t)
    \/ MgrFinishBatch
    \/ \E t \in ReferencedTags : ActorBatch(t)
    \/ MgrCleanup

SpecCleanup == InitCleanup /\ [][NextCleanup]_vars

\* The name carries the felix prefix of the manager's family, live or temporary.
HasFamilyPrefix(name) ==
    /\ Len(name) >= 2
    /\ name[1] = "felix-"
    /\ name[2] \in (IF ip_type = 4 THEN {"v4-", "tmp-v4-"} ELSE {"v6-", "tmp-v6-"})

\* The name is the set name or the temporary set name of a TagIpset that is
\* live, starting or stopping.
OwnedByActor(name) ==
    \E t \in Tags :
        /\ is_starting_or_live(t) \/ stopping[t]
        /\ Len(name) = 3
        /\ name[3] = t
        /\ HasFamilyPrefix(name)

\* A step of cleanup: the manager's last handler was cleanup, its batch is
\* not finished and no actor took a batch.
CleanupStep == mgr_last' = "cleanup" /\ mgr_in_batch' /\ a_queue' = a_queue

\* C29: cleanup calls "ipset destroy" for exactly the kernel sets whose names
\* carry the family prefix and are not owned by a live, starting or stopping
\* TagIpset; it removes no other set, and every set whose call did not fail is
\* gone afterwards whether or not another call failed.
C29_CleanupDestroysExactly ==
    [][CleanupStep =>
          LET before == list_ipset_names(kern, other_sets)
              after == list_ipset_names(kern', other_sets')
          IN  /\ DOMAIN cleanup_calls' =
                    {n \in before : HasFamilyPrefix(n) /\ ~OwnedByActor(n)}
              /\ after = before \ {n \in DOMAIN cleanup_calls' : cleanup_calls'[n] = "ok"}
              /\ \A t \in Tags : kern'[t]["live"] \in {kern[t]["live"], Absent}
              /\ \A t \in Tags : kern'[t]["tmp"] \in {kern[t]["tmp"], Absent}]_vars

\* C29 witness: a cleanup ran while the TagIpset of t1 was stopping and had
\* not deleted its set yet; the set of the dead tag t2 was destroyed although
\* the call for its temporary set failed; t1's set, the other family's set,
\* the hosts set and the foreign set are still there.
C29_Witness ==
    /\ mgr_last = "cleanup"
    /\ stopping["t1"]
    /\ ~a_stopped["t1"]
    /\ kern["t1"]["live"].exists
    /\ owned_ipset_names("t2") \subseteq DOMAIN cleanup_calls
    /\ cleanup_calls[tag_to_ipset_name(4, "t2", FALSE)] = "ok"
    /\ cleanup_calls[tag_to_ipset_name(4, "t2", TRUE)] = "FailedSystemCall"
    /\ ~kern["t2"]["live"].exists
    /\ kern["t2"]["tmp"].exists
    /\ other_sets = OtherNames

OwnersByMaps(t, ip, p) ==
    {e \in DOMAIN endpoints_by_ep_id :
        /\ p \in endpoints_by_ep_id[e].profile_ids
        /\ t \in Get(tags_by_prof_id, p, {})
        /\ \E n \in endpoints_by_ep_id[e][nets_key] : net_to_ip(n) = ip}

\* The endpoints the index holds for (t, ip, p); none where a level is missing
OwnersByIndex(t, ip, p) ==
    Get(Get(Get(ip_owners_by_tag, t, EmptyDict), ip, EmptyDict), p, {})

\* Every address that a net of some endpoint value can give
AllIps == IPs \cup {"ip6"}

IndexExact ==
    /\ \A t \in Tags, ip \in AllIps, p \in Profiles :
          OwnersByIndex(t, ip, p) = OwnersByMaps(t, ip, p)
    /\ DOMAIN ip_owners_by_tag \subseteq Tags
    /\ \A t \in DOMAIN ip_owners_by_tag :
          /\ ip_owners_by_tag[t] # EmptyDict
          /\ DOMAIN ip_owners_by_tag[t] \subseteq AllIps
          /\ \A ip \in DOMAIN ip_owners_by_tag[t] :
                /\ ip_owners_by_tag[t][ip] # EmptyDict
                /\ DOMAIN ip_owners_by_tag[t][ip] \subseteq Profiles
                /\ \A p \in DOMAIN ip_owners_by_tag[t][ip] :
                      ip_owners_by_tag[t][ip][p] # {}

\* C32: after every handler the reverse index holds e under (t, ip, p) iff e is
\* a known endpoint with profile p, p carries t and ip is one of e's addresses
\* of the family; it holds no empty endpoint set and no empty inner map; and
\* every handler that changes the set of IPs keyed under a tag leaves the tag
\* in dirty_tags.
C32_ReverseIndexExact ==
    /\ []IndexExact
    /\ [][\A t \in Tags :
            MembersOf(ip_owners_by_tag', t) # MembersOf(ip_owners_by_tag, t)
                => t \in dirty_tags']_vars

\* C32 witness: both endpoints own ip1 under t1 through both profiles and ip2
\* as well, t2 has lost its last address, and the batch is still open with
\* t2 dirty.
C32_Witness ==
    /\ OwnersByIndex("t1", "ip1", "p1") = {"e1", "e2"}
    /\ OwnersByIndex("t1", "ip1", "p2") = {"e1", "e2"}
    /\ "ip2" \in MembersOf(ip_owners_by_tag, "t1")
    /\ "t2" \notin DOMAIN ip_owners_by_tag
    /\ "t2" \in dirty_tags
    /\ tags_by_prof_id = [p \in Profiles |-> {"t1"}]

(***************************************************************************)
(* SpecThrash: endpoint updates that come and go within one batch          *)
(***************************************************************************)
\* Both profiles carry tag t1 (two on_tags_update have been handled and
\* flushed); no endpoint is known and the tag is not referenced yet.
InitThrash ==
    /\ tags_by_prof_id = [p \in Profiles |-> {"t1"}]
    /\ endpoints_by_ep_id = EmptyDict
    /\ ip_owners_by_tag = EmptyDict
    /\ endpoint_ids_by_profile_id = EmptyDict
    /\ dirty_tags = {}
    /\ mgr_in_batch = FALSE
    /\ ref_count = [t \in Tags |-> 0]
    /\ ref_state = [t \in Tags |-> "none"]
    /\ stopping = [t \in Tags |-> FALSE]
    /\ ready_msgs = [t \in Tags |-> FALSE]
    /\ cleanup_msgs = [t \in Tags |-> FALSE]
    /\ a_queue = [t \in Tags |-> <<>>]
    /\ a_members = [t \in Tags |-> {}]
    /\ a_programmed = [t \in Tags |-> None]
    /\ a_stopped = [t \in Tags |-> FALSE]
    /\ a_notified = [t \in Tags |-> FALSE]
    /\ mgr_last = "other"
    /\ a_batch = [t \in Tags |-> "none"]
    /\ kern = [t \in Tags |-> [tmp |-> Absent, live |-> Absent]]
    /\ RestIdle
    /\ EndpointIdle
    /\ IpsetIdle
    /\ ks = [n \in {"live", "tmp"} |-> Absent]
    /\ sc_pre = ks

\* Endpoint e1 appears under p1, moves to p2 with the same address, gains a
\* second address, and goes.
ThrashUpdates ==
    { None,
      Some([profile_ids |-> {"p1"}, ipv4_nets |-> {<<"ip1", 32>>}, ipv6_nets |-> {}]),
      Some([profile_ids |-> {"p2"}, ipv4_nets |-> {<<"ip1", 32>>}, ipv6_nets |-> {}]),
      Some([profile_ids |-> {"p2"}, ipv4_nets |-> {<<"ip1", 32>>, <<"ip2", 32>>},
            ipv6_nets |-> {}]) }

NextThrash ==
    \/ \E ev \in ThrashUpdates : MgrOnEndpointUpdate("e1", ev)
    \/ \E t \in ReferencedTags : MgrIncref(t)
    \/ \E t \in ReferencedTags : MgrDecref(t)
    \/ \E t \in ReferencedTags : MgrStartupComplete(t)
    \/ \E t \in ReferencedTags : MgrCleanupComplete(t)
    \/ MgrFinishBatch
    \/ \E t \in ReferencedTags : ActorBatch(t)

SpecThrash == InitThrash /\ [][NextThrash]_vars

\* The manager appended a message to the mailbox of t's TagIpset.
SentTo(t) == Len(a_queue'[t]) > Len(a_queue[t])

\* The step is _finish_msg_batch of the manager.
FlushStep == mgr_in_batch /\ ~mgr_in_batch'

\* The step starts a new TagIpset for t (_on_object_started).
ObjectStarted(t) == ref_state[t] # "starting" /\ ref_state'[t] = "starting"

\* The step is a batch of t's TagIpset that does not stop it.
ActorStep(t) == Len(a_queue'[t]) < Len(a_queue[t]) /\ ~a_stopped'[t]

\* C33: thrashing inside a batch does not reach the dataplane. A tag's
\* TagIpset is sent replace_members only by _finish_msg_batch of the manager
\* (or when the object is started); _finish_msg_batch sends one message, with
\* the membership at the end of the batch, to each dirty tag that is starting
\* or live and to no other, and empties dirty_tags; and a batch of the
\* TagIpset that leaves members equal to programmed_members rewrites nothing.
C33_ThrashingNotProgrammed ==
    [][\A t \in Tags :
          /\ SentTo(t) /\ a_queue'[t][Len(a_queue'[t])].kind = "replace_members"
                => FlushStep \/ ObjectStarted(t)
          /\ FlushStep =>
                /\ dirty_tags' = {}
                /\ Len(a_queue'[t]) <= Len(a_queue[t]) + 1
                /\ SentTo(t) <=> (t \in dirty_tags /\ is_starting_or_live(t))
                /\ SentTo(t) =>
                      a_queue'[t] = Append(a_queue[t],
                                           ReplaceMsg(MembersOf(ip_owners_by_tag, t)))
          /\ (ActorStep(t) /\ a_programmed[t] = Some(a_members'[t])) =>
                /\ kern'[t] = kern[t]
                /\ a_programmed'[t] = a_programmed[t]]_vars

\* C33 witness: the kernel set of t1 holds ip1 and is up to date; within the
\* batch just flushed e1 moved from p1 to p2 and gained and lost ip2 again, so
\* t1 was dirty and its TagIpset has been sent the membership it already has.
C33_Witness ==
    /\ ~mgr_in_batch
    /\ ref_state["t1"] = "live"
    /\ a_programmed["t1"] = Some({"ip1"})
    /\ KernelSetIs("t1", {"ip1"})
    /\ a_queue["t1"] = <<ReplaceMsg({"ip1"})>>
    /\ endpoints_by_ep_id["e1"].profile_ids = {"p2"}
    /\ OwnersByIndex("t1", "ip1", "p2") = {"e1"}
    /\ OwnersByIndex("t1", "ip1", "p1") = {}

\* C34: whenever a LocalEndpoint is ready, not failed and has finished
\* processing an update, the to/from chains in the kernel are the ones
\* get_endpoint_rules produces from its current endpoint data: their goto
\* targets are the chains of the profile the endpoint currently names.
C34_ChainsFollowEndpoint ==
    \A i \in LocalIds :
       (ready(le[i]) /\ ~le[i].failed) =>
          chains[le[i].iface_name[1]] = Some(le[i].endpoint[1].profile_id)

StopUpdates ==
    { None,
      Some([profile_ids |-> {"p1"}, ipv4_nets |-> {<<"ip1", 32>>}, ipv6_nets |-> {}]) }

NextStop ==
    \/ \E ev \in StopUpdates : MgrOnEndpointUpdate("e1", ev)
    \/ \E t \in ReferencedTags : MgrIncref(t)
    \/ \E t \in ReferencedTags : MgrDecref(t)
    \/ \E t \in ReferencedTags : MgrStartupComplete(t)
    \/ \E t \in ReferencedTags : MgrCleanupComplete(t)
    \/ MgrFinishBatch
    \/ \E t \in ReferencedTags : ActorBatch(t)

\* A TagIpset with messages in its mailbox is scheduled, and the manager
\* handles the cleanup_complete messages it was sent.
SpecStopFair ==
    /\ InitThrash
    /\ [][NextStop]_vars
    /\ \A t \in ReferencedTags : WF_vars(ActorBatch(t))
    /\ \A t \in ReferencedTags : WF_vars(MgrCleanupComplete(t))

\* C36: on_unreferenced signals cleanup_complete once, also when the kernel
\* sets could not be destroyed: the batch in which a TagIpset becomes stopped
\* raises the signal, nothing else does, and none is pending at that moment.
\* Hence a tag that reached refcount zero does not stay stopping, and a
\* reference taken while it was stopping gets its new TagIpset started.
C36_CleanupAlwaysSignalled ==
    /\ [][\A t \in Tags :
            /\ (~a_stopped[t] /\ a_stopped'[t]) => (~cleanup_msgs[t] /\ cleanup_msgs'[t])
            /\ (~cleanup_msgs[t] /\ cleanup_msgs'[t]) => (~a_stopped[t] /\ a_stopped'[t])]_vars
    /\ \A t \in ReferencedTags : stopping[t] ~> ~stopping[t]
    /\ \A t \in ReferencedTags :
          (ref_state[t] = "created") ~> (ref_state[t] \in {"starting", "none"})

\* C36 witness: t1's TagIpset was told it is unreferenced, could not destroy
\* its live set and has signalled cleanup_complete all the same, while the
\* tag is referenced again and waits for the old object to go.
C36_Witness ==
    /\ stopping["t1"]
    /\ a_stopped["t1"]
    /\ cleanup_msgs["t1"]
    /\ kern["t1"]["live"].exists
    /\ ref_state["t1"] = "created"

(***************************************************************************)
(* SpecHosts: _load_initial_dump and the handlers of the host keys         *)
(***************************************************************************)
\* The values of a bird_ip key: an IPv4 address, an address that is not in
\* canonical form, and a value that is no address.
RawIps == {"10.0.0.1", "FE80::1", "bad"}

\* parse_host_ip: None for an invalid value, else the canonical address
parse_host_ip(raw_value) ==
    IF raw_value = "bad" THEN None
    ELSE IF raw_value = "FE80::1" THEN Some("fe80::1")
    ELSE Some(raw_value)

\* dict.values() as replace_members takes it: the set of the addresses
Values(d) == {d[k] : k \in DOMAIN d}

\* on_host_ip_set: the dict it leaves and, if it sends replace_members to the
\* hosts ipset, the members (else None)
on_host_ip_set(enabled, by_hostname, hostname, raw_value) ==
    IF ~enabled THEN <<by_hostname, None>>
    ELSE LET ip == parse_host_ip(raw_value)
             d == IF ip # None THEN Put(by_hostname, hostname, ip[1])
                  ELSE Del(by_hostname, hostname)
         IN  <<d, Some(Values(d))>>

\* on_host_ip_delete: replace_members is sent if the host had an address
on_host_ip_delete(enabled, by_hostname, hostname) ==
    IF ~enabled THEN <<by_hostname, None>>
    ELSE IF hostname \in DOMAIN by_hostname
    THEN <<Del(by_hostname, hostname), Some(Values(Del(by_hostname, hostname)))>>
    ELSE <<by_hostname, None>>

\* _load_initial_dump, the loop over the children: the tags of a profile are
\* stored whatever parse_if_tags made of them, an endpoint only if it parsed,
\* a host address only if IP-in-IP is enabled and it parsed.
dump_tags_by_id(tags_entries) ==
    [p \in DOMAIN tags_entries |-> parse_tags(tags_entries[p])]

dump_endpoints_by_id(ep_entries) ==
    [id \in {i \in DOMAIN ep_entries : parse_endpoint(ep_entries[i]) # None} |->
        parse_endpoint(ep_entries[id])]

dump_ipv4_by_hostname(enabled, bird_ips) ==
    IF ~enabled THEN EmptyDict
    ELSE [h \in {x \in DOMAIN bird_ips : parse_host_ip(bird_ips[x]) # None} |->
            parse_host_ip(bird_ips[h])[1]]

\* The endpoints and profiles a snapshot of SpecHosts may hold
DumpEndpointIds == {EndpointId("h1", "o1", "w1", "e1"), EndpointId("h2", "o1", "w1", "e1")}

DumpProfiles == {"p1"}

\* The contents of the host keys of the store
BirdIpStores == UNION {[hs -> RawIps] : hs \in SUBSET RecHosts}

\* The watcher has loaded its config and start_watch has been called; it is
\* about to load its first snapshot. The store holds any host addresses.
InitHosts ==
    /\ w_state = "SNAPSHOT"
    /\ load_config = TRUE
    /\ begin_polling = TRUE
    /\ configured = TRUE
    /\ splitter = Some("splitter")
    /\ store_ready = Some("true")
    /\ store_config \in {[host |-> "{}", global |-> g] : g \in ConfigValues}
    /\ last_config = Some(store_config)
    /\ w_round = [ready_read |-> TRUE, config_loaded |-> TRUE, begun |-> TRUE]
    /\ w_sent = <<>>
    /\ api_trace = <<>>
    /\ w_events = <<>>
    /\ cfg_reports = 1
    /\ exit_code = None
    /\ w_last = "begin"
    /\ endpoint_ids_per_host = EmptyDict
    /\ sp_sent = <<>>
    /\ rec_last = <<>>
    /\ rec_latest = [id \in RecEndpointIds |-> "absent"]
    /\ ipv4_by_hostname = EmptyDict
    /\ hosts_sent = None
    /\ store_bird_ip \in BirdIpStores
    /\ TasksIdle
    /\ CleanupIdle
    /\ PortsIdle
    /\ RulesIdle
    /\ IpsetIdle
    /\ ks = [n \in {"live", "tmp"} |-> Absent]
    /\ sc_pre = ks
    /\ TagsIdle
    /\ EndpointIdle

NotHosts == <<ipsetVars, tagsVars, epVars, portsVars, rulesVars, taskVars, cleanupVars,
              load_config, begin_polling, configured, splitter, store_ready, store_config,
              last_config, w_round, w_sent, api_trace, w_events, cfg_reports, exit_code,
              w_last>>

\* _load_initial_dump on a snapshot holding the tags and endpoint records
\* given and the host keys of the store; the watcher starts polling.
HostsLoadInitialDump(tags_entries, ep_entries) ==
    /\ w_state = "SNAPSHOT"
    /\ w_state' = "POLL"
    /\ endpoint_ids_per_host' = snapshot_endpoint_ids(ep_entries)
    /\ ipv4_by_hostname' = dump_ipv4_by_hostname(IP_IN_IP_ENABLED, store_bird_ip)
    /\ sp_sent' = <<Msg("apply_snapshot", <<>>,
                        [tags |-> dump_tags_by_id(tags_entries),
                         eps |-> dump_endpoints_by_id(ep_entries)])>>
    /\ hosts_sent' = IF IP_IN_IP_ENABLED THEN Some(Values(ipv4_by_hostname'))
                     ELSE hosts_sent
    /\ rec_last' = Some(RecEvent("snapshot", "", <<>>, ""))
    /\ rec_latest' = [id \in RecEndpointIds |->
                        IF id \notin DOMAIN ep_entries THEN "absent"
                        ELSE IF ep_entries[id] = "{valid}" THEN "snapshot valid"
                        ELSE "snapshot invalid"]
    /\ UNCHANGED <<store_bird_ip, NotHosts>>

\* What a handler of a host key leaves: h is <<dict, members sent or None>>
HostsHandled(event, h) ==
    /\ ipv4_by_hostname' = h[1]
    /\ hosts_sent' = IF h[2] # None THEN h[2] ELSE hosts_sent
    /\ rec_last' = Some(event)
    /\ UNCHANGED <<w_state, NotHosts>>

\* The bird_ip key of a host is written and on_host_ip_set runs.
HostIpSet(hostname, raw_value) ==
    /\ w_state = "POLL"
    /\ store_bird_ip' = Put(store_bird_ip, hostname, raw_value)
    /\ HostsHandled(RecEvent("set", "HOST_IP_KEY", <<hostname>>, raw_value),
                    on_host_ip_set(IP_IN_IP_ENABLED, ipv4_by_hostname, hostname, raw_value))
    /\ UNCHANGED <<endpoint_ids_per_host, sp_sent, rec_latest>>

\* The bird_ip key of a host is deleted and on_host_ip_delete runs.
HostIpDelete(hostname) ==
    /\ w_state = "POLL"
    /\ hostname \in DOMAIN store_bird_ip
    /\ store_bird_ip' = Del(store_bird_ip, hostname)
    /\ HostsHandled(RecEvent("delete", "HOST_IP_KEY", <<hostname>>, ""),
                    on_host_ip_delete(IP_IN_IP_ENABLED, ipv4_by_hostname, hostname))
    /\ UNCHANGED <<endpoint_ids_per_host, sp_sent, rec_latest>>

\* A host directory (PER_HOST_DIR), or only its workload directory
\* (WORKLOAD_DIR), is deleted; both are registered with on_host_delete, which
\* ends by calling on_host_ip_delete. The bird_ip key lies in the host
\* directory, not in the workload directory.
HostDirDelete(key, hostname) ==
    /\ w_state = "POLL"
    /\ store_bird_ip' = IF key = "PER_HOST_DIR" THEN Del(store_bird_ip, hostname)
                        ELSE store_bird_ip
    /\ \E order \in Orders_of(IdsOn(endpoint_ids_per_host, hostname)) :
          LET h == on_host_delete(endpoint_ids_per_host, hostname, order)
          IN  /\ endpoint_ids_per_host' = h.cache
              /\ sp_sent' = h.sent
    /\ rec_latest' = Gone(Under(hostname, "", ""))
    /\ HostsHandled(RecEvent("delete", key, <<hostname>>, ""),
                    on_host_ip_delete(IP_IN_IP_ENABLED, ipv4_by_hostname, hostname))

\* The watcher stops polling (_resync); until the next snapshot is loaded
\* the store changes unseen.
HostsResync(bird_ips) ==
    /\ w_state = "POLL"
    /\ w_state' = "SNAPSHOT"
    /\ store_bird_ip' = bird_ips
    /\ UNCHANGED <<endpoint_ids_per_host, sp_sent, rec_last, rec_latest, ipv4_by_hostname,
                   hosts_sent, NotHosts>>

NextHosts ==
    \/ \E ps \in SUBSET DumpProfiles, ids \in SUBSET DumpEndpointIds :
          \E tags_entries \in [ps -> RawValues], ep_entries \in [ids -> {"{valid}", "{invalid}"}] :
             HostsLoadInitialDump(tags_entries, ep_entries)
    \/ \E h \in RecHosts, raw_value \in RawIps : HostIpSet(h, raw_value)
    \/ \E h \in RecHosts : HostIpDelete(h)
    \/ \E key \in {"PER_HOST_DIR", "WORKLOAD_DIR"}, h \in RecHosts : HostDirDelete(key, h)
    \/ \E bird_ips \in BirdIpStores : HostsResync(bird_ips)

SpecHosts == InitHosts /\ [][NextHosts]_vars

\* C37: every tags_by_prof_id and endpoints_by_id mapping that the watcher
\* builds from a snapshot and hands to apply_snapshot holds only non-null
\* values, so the assertions of IpsetManager.apply_snapshot cannot fail.
C37_SnapshotValuesNotNull ==
    \A k \in DOMAIN sp_sent :
        sp_sent[k].op = "apply_snapshot" =>
           /\ \A p \in DOMAIN sp_sent[k].value.tags : sp_sent[k].value.tags[p] # None
           /\ \A id \in DOMAIN sp_sent[k].value.eps : sp_sent[k].value.eps[id] # None

\* C38: while the watcher polls, with IP-in-IP enabled ipv4_by_hostname maps
\* exactly the hosts whose bird_ip key exists in the store with a valid
\* address, to that address, and the members last sent to the hosts ipset are
\* its values (so the deletion of a host's workload directory alone removes
\* nothing); with IP-in-IP disabled nothing is ever sent to the hosts ipset.
C38_HostIpsFollowStore ==
    w_state = "POLL" =>
       IF IP_IN_IP_ENABLED
       THEN /\ ipv4_by_hostname = dump_ipv4_by_hostname(TRUE, store_bird_ip)
            /\ hosts_sent = Some(Values(ipv4_by_hostname))
       ELSE hosts_sent = None

\* The fragment holds the match "<option> <net>".
HasNetMatch(f, option, net) ==
    \E k \in 1..(Len(f) - 1) : f[k] = Word(option) /\ f[k + 1] = Word(net)

\* C39: a compiled fragment never matches more than its rule allows: every
\* fragment emitted for a rule with src_net (dst_net) carries the --source
\* (--destination) match of that net, also when the net is of the other
\* family than the chain being compiled.
C39_NetMatchKept ==
    \A k \in DOMAIN fragments :
        (rules # <<>> /\ IsCompiled(fragments[k])) =>
            /\ rules[1].src_net # None =>
                  HasNetMatch(fragments[k], "--source", rules[1].src_net[1])
            /\ rules[1].dst_net # None =>
                  HasNetMatch(fragments[k], "--destination", rules[1].dst_net[1])

\* C40: at most one scheduled retry of _maybe_update is outstanding per
\* LocalEndpoint, whatever the interleaving of endpoint updates, interface
\* updates, retry firings and programming failures.
C40_OneRetryOutstanding ==
    \A i \in LocalIds : pending_retries[i] <= 1

====
